---- MODULE Spec2Model ----
(***************************************************************************)
(* Model of the watchlist / recommendation reconciliation core of          *)
(* jellyfin-ai-recommender (src/app.py): the JSON document store, the      *)
(* media entry helpers, the mutation handlers, the import / merge          *)
(* functions, the parallel enrichment of AI recommendations and the        *)
(* database file as the sessions read and write it.                        *)
(***************************************************************************)
EXTENDS Integers, Sequences, FiniteSets, TLC

VARIABLES
    file,             \* database.json: [ok |-> is it parseable JSON, doc |-> username -> record]
    media_type,       \* st.session_state.media_type (radio: "Elokuva" / "TV-sarja")
    recommendations,  \* st.session_state.recommendations
    toast,            \* the notice shown by the last handler
    fetch,            \* the locals of a running recommendation fetch, NoFetch when idle
    disk,             \* database.json and database.json.backup as written text
    sessions,         \* browser sessions between their load and their save
    session_state,    \* st.session_state: the flags of the fetch button and the rate limiter
    script,           \* the clock, and whether the script is inside the fetch block
    prompt,           \* the arguments and the result of the last build_prompt call
    retry,            \* one call of a function wrapped by retry_with_backoff
    cache             \* the st.cache_data entry of get_jellyfin_watched_titles

\* the state of the handlers, the imports and the fetch steps
app == <<file, media_type, recommendations, toast, fetch>>

\* what the handlers, the imports and the fetch steps leave alone
aside == <<disk, sessions, session_state, script, prompt, retry, cache>>
AtRest == <<>>

vars == <<file, media_type, recommendations, toast, fetch, aside>>

-----------------------------------------------------------------------------
(* Bounds *)

MaxEntries == 2       \* an operation fires only if it leaves at most this many stored entries
MaxRecs == 2          \* at most this many recommendations per AI answer

-----------------------------------------------------------------------------
(* Values *)

Titles == {"Dune", "Arrival"}
None == "None"                          \* Python's None
TmdbOf(t) == IF t = "Dune" THEN "438631" ELSE "329865"
username == "alice"                     \* st.session_state.jellyfin_session['User']['Name']
NotFound == 0                           \* find_media_in_list: idx is None

\* str.lower() on the strings that reach it
Lower(s) ==
    CASE s = "Elokuva" -> "elokuva"
      [] s = "TV-sarja" -> "tv-sarja"
      [] s = "Movie"   -> "movie"
      [] s = "TV"      -> "tv"
      [] OTHER         -> s

\* dict.get(key, default) / dict.setdefault(key, default) / d[key] = value
Get(d, k, default) == IF k \in DOMAIN d THEN d[k] ELSE default
SetDefault(d, k, default) == IF k \in DOMAIN d THEN d ELSE (k :> default) @@ d
Put(d, k, v) == (k :> v) @@ d

\* list.pop(idx), idx counted from 1
Pop(list, idx) ==
    [j \in 1..(Len(list) - 1) |-> IF j < idx THEN list[j] ELSE list[j + 1]]

Min(S) == CHOOSE x \in S : \A y \in S : x <= y

-----------------------------------------------------------------------------
(* Media Entry Model *)

\* a legacy bare-string entry
StrEntry(t) == [kind |-> "str", title |-> t]

create_media_entry(title, mtype, tmdb_id) ==
    [kind |-> "dict", title |-> title, media_type |-> mtype, tmdb_id |-> tmdb_id]

is_media_entry_dict(entry) ==
    entry.kind = "dict" /\ "title" \in DOMAIN entry /\ "media_type" \in DOMAIN entry

get_media_title(entry) ==
    IF entry.kind = "dict" THEN Get(entry, "title", "") ELSE entry.title

find_media_in_list_dict_only(title, media_list) ==
    LET hits == {i \in 1..Len(media_list) :
                    media_list[i].kind = "dict" /\ media_list[i].title = title}
    IN  IF hits = {} THEN NotFound ELSE Min(hits)

\* index of the first entry with this title, NotFound if there is none
find_media_in_list(title, media_list) ==
    LET hits == {i \in 1..Len(media_list) : get_media_title(media_list[i]) = title}
    IN  IF hits = {} THEN NotFound ELSE Min(hits)

-----------------------------------------------------------------------------
(* Document Store *)

EmptyWatchlist == [kind |-> "dict", movies |-> <<>>, series |-> <<>>]

\* the default record of db.setdefault(username, {...}) in the handlers
DefaultUser ==
    [movies |-> <<>>, series |-> <<>>, do_not_recommend |-> <<>>,
     watchlist |-> EmptyWatchlist, available_but_unwatched |-> <<>>,
     jellyseerr_available |-> [movies |-> <<>>, series |-> <<>>]]

EmptyDoc == <<>>      \* {} : no username has a record

\* json.load of the file; {} when the file does not hold valid JSON
load_manual_db(f) == IF f.ok THEN f.doc ELSE EmptyDoc

save_manual_db(db) == [ok |-> TRUE, doc |-> db]

\* number of entries stored for the logged-in user (bounds the model)
WatchlistLen(w) ==
    IF w.kind = "list" THEN Len(w.items)
    ELSE Len(Get(w, "movies", <<>>)) + Len(Get(w, "series", <<>>))

Size(f) ==
    LET u == Get(f.doc, username, DefaultUser)
    IN  Len(Get(u, "movies", <<>>)) + Len(Get(u, "series", <<>>))
        + Len(Get(u, "do_not_recommend", <<>>))
        + Len(Get(u, "available_but_unwatched", <<>>))
        + WatchlistLen(Get(u, "watchlist", EmptyWatchlist))

-----------------------------------------------------------------------------
(* Mutation handlers.  Each operator is one handler run on file f with the  *)
(* session's recommendations recs; it yields the file, the recommendations *)
(* and the notice the handler leaves behind.                               *)

\* st.toast(...): which message, about which title
Toast(msg, title) == [msg |-> msg, title |-> title]
NoToast == Toast("none", "")

Outcome(f, recs, t) == [file |-> f, recommendations |-> recs, toast |-> t]

\* [r for r in recommendations if r.get("title") != title]
WithoutTitle(recs, title) == SelectSeq(recs, LAMBDA r : r.title # title)

\* the first recommendation with this title, as the handlers look it up
RecIndex(recs, title) ==
    LET hits == {i \in 1..Len(recs) : recs[i].title = title}
    IN  IF hits = {} THEN NotFound ELSE Min(hits)

handle_search_result_add_watched(f, recs, title, mtype, tmdb_id) ==
    LET db == SetDefault(load_manual_db(f), username, DefaultUser)
        user_data == db[username]
        type_key == IF Lower(mtype) = "movie" THEN "movies" ELSE "series"
        idx == find_media_in_list(title, Get(user_data, type_key, <<>>))
        media_entry == create_media_entry(title, Lower(mtype), tmdb_id)
        new_user == Put(user_data, type_key,
                        Append(Get(user_data, type_key, <<>>), media_entry))
    IN  IF idx = NotFound
        THEN Outcome(save_manual_db(Put(db, username, new_user)), recs, Toast("added to watched", title))
        ELSE Outcome(f, recs, Toast("already listed", title))

handle_search_result_watchlist(f, recs, title, mtype, tmdb_id) ==
    LET db == SetDefault(load_manual_db(f), username, DefaultUser)
        user_data == SetDefault(db[username], "watchlist", EmptyWatchlist)
        wl == user_data["watchlist"]
        type_key == IF Lower(mtype) = "movie" THEN "movies" ELSE "series"
        idx == find_media_in_list(title, Get(wl, type_key, <<>>))
        media_entry == create_media_entry(title, Lower(mtype), tmdb_id)
        new_wl == Put(wl, type_key, Append(Get(wl, type_key, <<>>), media_entry))
        new_user == Put(user_data, "watchlist", new_wl)
    IN  IF wl.kind = "list"
        THEN Outcome(f, recs, Toast("exception", title))       \* list has no .get
        ELSE IF idx = NotFound
        THEN Outcome(save_manual_db(Put(db, username, new_user)), recs, Toast("added to watchlist", title))
        ELSE Outcome(f, recs, Toast("already in watchlist", title))

handle_search_result_blacklist(f, recs, radio, title, tmdb_id) ==
    LET db == SetDefault(load_manual_db(f), username, DefaultUser)
        user_data == db[username]
        media_type_standard ==
            IF Lower(radio) \in {"movie", "elokuva"} THEN "movie" ELSE "tv"
        idx == find_media_in_list(title, Get(user_data, "do_not_recommend", <<>>))
        media_entry == create_media_entry(title, media_type_standard, tmdb_id)
        new_user == Put(user_data, "do_not_recommend",
                        Append(Get(user_data, "do_not_recommend", <<>>), media_entry))
    IN  IF idx = NotFound
        THEN Outcome(save_manual_db(Put(db, username, new_user)), recs, Toast("added to do-not-recommend", title))
        ELSE Outcome(f, recs, Toast("already in do-not-recommend", title))

handle_watched_add(f, recs, title, media_type_from_radio, tmdb_id) ==
    LET db == SetDefault(load_manual_db(f), username, DefaultUser)
        user_data == SetDefault(db[username], "do_not_recommend", <<>>)
        key == IF media_type_from_radio = "Elokuva" THEN "movies" ELSE "series"
        media_type_standard == IF media_type_from_radio = "Elokuva" THEN "movie" ELSE "tv"
        idx == find_media_in_list(title, Get(user_data, key, <<>>))
        media_entry == create_media_entry(title, media_type_standard, tmdb_id)
        new_user == Put(user_data, key, Append(Get(user_data, key, <<>>), media_entry))
    IN  IF idx = NotFound
        THEN Outcome(save_manual_db(Put(db, username, new_user)),
                     WithoutTitle(recs, title), Toast("added to watched", title))
        ELSE Outcome(f, recs, Toast("already listed", title))

handle_watchlist_add(f, recs, radio, title_to_add) ==
    LET db == SetDefault(load_manual_db(f), username, DefaultUser)
        user_data == SetDefault(db[username], "watchlist", EmptyWatchlist)
        wl == user_data["watchlist"]
        key == IF radio = "Elokuva" THEN "movies" ELSE "series"
        media_type_standard == IF radio = "Elokuva" THEN "movie" ELSE "tv"
        r == RecIndex(recs, title_to_add)
        actual_media_type ==
            IF r = NotFound THEN media_type_standard
            ELSE Get(recs[r], "media_type", media_type_standard)
        tmdb_id == IF r = NotFound THEN None ELSE Get(recs[r], "media_id", None)
        idx == find_media_in_list(title_to_add, Get(wl, key, <<>>))
        media_entry == create_media_entry(title_to_add, actual_media_type, tmdb_id)
        new_wl == Put(wl, key, Append(Get(wl, key, <<>>), media_entry))
        new_user == Put(user_data, "watchlist", new_wl)
    IN  IF wl.kind = "list"
        THEN Outcome(f, recs, Toast("exception", title_to_add))       \* list has no .get
        ELSE IF idx = NotFound
        THEN Outcome(save_manual_db(Put(db, username, new_user)),
                     WithoutTitle(recs, title_to_add), Toast("added to watchlist", title_to_add))
        ELSE Outcome(f, recs, Toast("already in watchlist", title_to_add))

handle_watchlist_remove(f, recs, title_to_remove, media_type_key) ==
    LET db == load_manual_db(f)
        user_data == Get(db, username, <<>>)
        wl == Get(user_data, "watchlist", EmptyWatchlist)
        watchlist_list == Get(wl, media_type_key, <<>>)
        idx == find_media_in_list(title_to_remove, watchlist_list)
        new_wl == Put(wl, media_type_key, Pop(watchlist_list, idx))
        new_user == Put(user_data, "watchlist", new_wl)
    IN  IF wl.kind = "list"
        THEN Outcome(f, recs, Toast("exception", title_to_remove))       \* list has no .get
        ELSE IF idx # NotFound
        THEN Outcome(save_manual_db(Put(db, username, new_user)), recs, Toast("removed from watchlist", title_to_remove))
        ELSE Outcome(f, recs, Toast("not in watchlist", title_to_remove))

\* the move that builds the watched entry anew from the title
handle_watchlist_mark_watched_recreating(f, recs, title_to_mark, media_type_key) ==
    LET db == SetDefault(load_manual_db(f), username, DefaultUser)
        user_data == db[username]
        wl == Get(user_data, "watchlist", EmptyWatchlist)
        watchlist_list == Get(wl, media_type_key, <<>>)
        idx == find_media_in_list(title_to_mark, watchlist_list)
        media_type_standard == IF media_type_key = "movies" THEN "movie" ELSE "tv"
        media_entry == create_media_entry(title_to_mark, media_type_standard, None)
        popped == Put(user_data, "watchlist",
                      Put(wl, media_type_key, Pop(watchlist_list, idx)))
        new_user == Put(popped, media_type_key,
                        Append(Get(popped, media_type_key, <<>>), media_entry))
    IN  IF wl.kind = "list"
        THEN Outcome(f, recs, Toast("exception", title_to_mark))
        ELSE IF idx # NotFound
        THEN Outcome(save_manual_db(Put(db, username, new_user)), recs, Toast("marked watched and removed from watchlist", title_to_mark))
        ELSE Outcome(f, recs, Toast("not in watchlist", title_to_mark))

handle_watchlist_mark_watched(f, recs, title_to_mark, media_type_key) ==
    LET db == SetDefault(load_manual_db(f), username, DefaultUser)
        user_data == db[username]
        wl == Get(user_data, "watchlist", EmptyWatchlist)
        watchlist_list == Get(wl, media_type_key, <<>>)
        idx == find_media_in_list(title_to_mark, watchlist_list)
        entry_to_move == watchlist_list[idx]
        media_type_standard == IF media_type_key = "movies" THEN "movie" ELSE "tv"
        media_entry ==
            IF is_media_entry_dict(entry_to_move) THEN entry_to_move
            ELSE create_media_entry(entry_to_move.title, media_type_standard, None)
        popped == Put(user_data, "watchlist",
                      Put(wl, media_type_key, Pop(watchlist_list, idx)))
        new_user == Put(popped, media_type_key,
                        Append(Get(popped, media_type_key, <<>>), media_entry))
    IN  IF wl.kind = "list"
        THEN Outcome(f, recs, Toast("exception", title_to_mark))       \* list has no .get
        ELSE IF idx # NotFound
        THEN Outcome(save_manual_db(Put(db, username, new_user)), recs, Toast("marked watched and removed from watchlist", title_to_mark))
        ELSE Outcome(f, recs, Toast("not in watchlist", title_to_mark))

\* the watchlist after the loop over ["movies", "series"] that stops at the first hit
RemoveFromFirstWatchlist(wl, title) ==
    LET im == find_media_in_list(title, Get(wl, "movies", <<>>))
        is == find_media_in_list(title, Get(wl, "series", <<>>))
    IN  IF im # NotFound THEN Put(wl, "movies", Pop(wl["movies"], im))
        ELSE IF is # NotFound THEN Put(wl, "series", Pop(wl["series"], is))
        ELSE wl

handle_blacklist_add(f, recs, radio, title) ==
    LET db == SetDefault(load_manual_db(f), username, DefaultUser)
        user_data == SetDefault(SetDefault(db[username], "do_not_recommend", <<>>),
                                "watchlist", EmptyWatchlist)
        media_type_standard == IF radio = "Elokuva" THEN "movie" ELSE "tv"
        idx == find_media_in_list(title, user_data["do_not_recommend"])
        r == RecIndex(recs, title)
        actual_media_type ==
            IF r = NotFound THEN media_type_standard
            ELSE Get(recs[r], "media_type", media_type_standard)
        tmdb_id == IF r = NotFound THEN None ELSE Get(recs[r], "media_id", None)
        media_entry == create_media_entry(title, actual_media_type, tmdb_id)
        wl == user_data["watchlist"]
        new_user == Put(Put(user_data, "do_not_recommend",
                            Append(user_data["do_not_recommend"], media_entry)),
                        "watchlist", RemoveFromFirstWatchlist(wl, title))
    IN  IF idx = NotFound
        THEN IF wl.kind = "list"
             THEN Outcome(f, recs, Toast("exception", title))  \* list has no .get, nothing saved
             ELSE Outcome(save_manual_db(Put(db, username, new_user)),
                          WithoutTitle(recs, title), Toast("added to blacklist", title))
        ELSE Outcome(f, recs, Toast("already in blacklist", title))

-----------------------------------------------------------------------------
(* Availability Reconciler *)

AvailableStatuses == {"AVAILABLE", "PARTIALLY_AVAILABLE"}
Statuses == AvailableStatuses \cup {"PENDING", None}

\* any(item["title"] == title for item in available_list): "hit" at the first
\* entry with the title, "raise" at the first bare string (str has no ["title"])
AnyTitle(available_list, title) ==
    LET stops == {i \in 1..Len(available_list) :
                    \/ available_list[i].kind = "str"
                    \/ available_list[i].title = title}
    IN  IF stops = {} THEN "miss"
        ELSE IF available_list[Min(stops)].kind = "str" THEN "raise" ELSE "hit"

\* the reconciler without the look-up in the watched titles
check_and_add_available_unwatched_unwatched_or_not(title, mtype, tmdb_id, jellyfin_watched, db, status) ==
    LET db1 == SetDefault(db, username, DefaultUser)
        db2 == Put(db1, username,
                   SetDefault(db1[username], "available_but_unwatched", <<>>))
        available_list == db2[username]["available_but_unwatched"]
        new_item == [kind |-> "dict", title |-> title, media_type |-> mtype,
                     tmdb_id |-> tmdb_id, noted_at |-> "ts"]
    IN  IF status \notin AvailableStatuses THEN db
        ELSE IF AnyTitle(available_list, title) # "miss" THEN db2
        ELSE Put(db2, username,
                 Put(db2[username], "available_but_unwatched",
                     Append(available_list, new_item)))

\* the in-memory db after the call; status is what get_jellyseerr_media_status returned
check_and_add_available_unwatched(title, mtype, tmdb_id, jellyfin_watched, db, status) ==
    LET db1 == SetDefault(db, username, DefaultUser)
        db2 == Put(db1, username,
                   SetDefault(db1[username], "available_but_unwatched", <<>>))
        available_list == db2[username]["available_but_unwatched"]
        new_item == [kind |-> "dict", title |-> title, media_type |-> mtype,
                     tmdb_id |-> tmdb_id, noted_at |-> "ts"]
    IN  IF status \notin AvailableStatuses THEN db
        ELSE IF title \in jellyfin_watched THEN db
        ELSE IF AnyTitle(available_list, title) # "miss" THEN db2
        ELSE Put(db2, username,
                 Put(db2[username], "available_but_unwatched",
                     Append(available_list, new_item)))

\* for rec in enriched_recommendations: if rec media_id and media_type: check_and_add...
RECURSIVE AvailabilityLoop(_, _, _, _, _)
AvailabilityLoop(enriched, i, statusOf, watched, db) ==
    IF i > Len(enriched) THEN db
    ELSE LET rec == enriched[i]
             next_db ==
                 IF rec.media_id # None /\ rec.media_type # None
                 THEN check_and_add_available_unwatched(
                          rec.title, rec.media_type, rec.media_id, watched, db, statusOf[i])
                 ELSE db
         IN  AvailabilityLoop(enriched, i + 1, statusOf, watched, next_db)

\* the titles of a list of entries (get_media_title on each)
TitlesOf(list) == {get_media_title(list[i]) : i \in 1..Len(list)}

\* full_watched_list: remote titles plus the manually marked movies and series
FullWatched(db, jellyfin_titles) ==
    LET u == Get(db, username, DefaultUser)
    IN  jellyfin_titles \cup TitlesOf(Get(u, "movies", <<>>))
                       \cup TitlesOf(Get(u, "series", <<>>))

-----------------------------------------------------------------------------
(* Remote syncs run at the start of a fetch *)

\* the sync metadata set on the loaded record and never written back
SaveJellyfinMetadata_in_memory_only(f, watched_with_type) == f

\* get_jellyfin_watched_titles: on a successful fetch the sync metadata is saved
\* watched_with_type is the list of [title, media_type] the remote API returned
SaveJellyfinMetadata(f, watched_with_type) ==
    LET db == SetDefault(load_manual_db(f), username, DefaultUser)
        user_data == Put(Put(db[username], "jellyfin_synced_at", "ts"),
                         "jellyfin_total_watched", ToString(Len(watched_with_type)))
    IN  save_manual_db(Put(db, username, user_data))

\* appends a noted entry for each available title that is not in the list yet
RECURSIVE NoteAvailable(_, _, _)
NoteAvailable(entries, i, available_list) ==
    IF i > Len(entries) THEN available_list
    ELSE LET entry == entries[i]
             new_entry == [kind |-> "dict", title |-> entry.title,
                           media_type |-> entry.media_type,
                           tmdb_id |-> entry.tmdb_id, noted_at |-> "ts"]
         IN  NoteAvailable(entries, i + 1,
                 IF get_media_title(entry) \in TitlesOf(available_list)
                 THEN available_list ELSE Append(available_list, new_entry))

sync_jellyseerr_available_titles(f, available_movies, available_series) ==
    LET db == SetDefault(load_manual_db(f), username,
                  [movies |-> <<>>, series |-> <<>>, do_not_recommend |-> <<>>,
                   watchlist |-> EmptyWatchlist, available_but_unwatched |-> <<>>])
        user_data == SetDefault(db[username], "available_but_unwatched", <<>>)
        watched_titles == TitlesOf(Get(user_data, "movies", <<>>))
                              \cup TitlesOf(Get(user_data, "series", <<>>))
        unwatched_movies ==
            SelectSeq(available_movies, LAMBDA e : get_media_title(e) \notin watched_titles)
        unwatched_series ==
            SelectSeq(available_series, LAMBDA e : get_media_title(e) \notin watched_titles)
        available_list ==
            NoteAvailable(unwatched_series, 1,
                NoteAvailable(unwatched_movies, 1, user_data["available_but_unwatched"]))
        new_user ==
            Put(Put(Put(user_data, "available_but_unwatched", available_list),
                    "jellyseerr_synced_at", "ts"),
                "jellyseerr_available",
                [movies |-> available_movies, series |-> available_series])
    IN  IF available_movies = <<>> /\ available_series = <<>> THEN f
        ELSE save_manual_db(Put(db, username, new_user))

-----------------------------------------------------------------------------
(* Backup & restore: an uploaded document is                               *)
(* [valid |-> is it JSON, username |-> ..., data |-> a user record]         *)

\* keeps, for each title, the first entry seen, in order of first appearance
deduplicate_list(items_list) ==
    LET F[n \in 0..Len(items_list)] ==
            IF n = 0 THEN <<>>
            ELSE IF get_media_title(items_list[n]) \in TitlesOf(F[n - 1])
                 THEN F[n - 1] ELSE Append(F[n - 1], items_list[n])
    IN  F[Len(items_list)]

MergedRecord(current_data, imported_data) ==
    LET current_watchlist == Get(current_data, "watchlist", EmptyWatchlist)
        imported_watchlist == Get(imported_data, "watchlist", EmptyWatchlist)
        Both(k) == Get(current_data, k, <<>>) \o Get(imported_data, k, <<>>)
        BothWl(k) == Get(current_watchlist, k, <<>>) \o Get(imported_watchlist, k, <<>>)
    IN  [movies |-> deduplicate_list(Both("movies")),
         series |-> deduplicate_list(Both("series")),
         do_not_recommend |-> deduplicate_list(Both("do_not_recommend")),
         watchlist |-> [kind |-> "dict",
                        movies |-> deduplicate_list(BothWl("movies")),
                        series |-> deduplicate_list(BothWl("series"))],
         jellyfin_synced_at |-> Get(current_data, "jellyfin_synced_at", None),
         jellyfin_total_watched |-> Get(current_data, "jellyfin_total_watched", None)]

\* the file after the call, whether it returned True, and the error it showed
merge_user_data_from_json(f, upload, user) ==
    LET db == load_manual_db(f)
        current_data == Get(db, user,
            [movies |-> <<>>, series |-> <<>>, do_not_recommend |-> <<>>,
             watchlist |-> EmptyWatchlist])
        imported_data == upload.data
        raises ==      \* list has no .get
            \/ Get(current_data, "watchlist", EmptyWatchlist).kind = "list"
            \/ Get(imported_data, "watchlist", EmptyWatchlist).kind = "list"
    IN  IF ~upload.valid
        THEN [file |-> f, ok |-> FALSE, error |-> "invalid JSON"]
        ELSE IF upload.username # user
        THEN [file |-> f, ok |-> FALSE, error |-> "belongs to another user"]
        ELSE IF raises
        THEN [file |-> f, ok |-> FALSE, error |-> "unexpected error"]
        ELSE [file |-> save_manual_db(Put(db, user, MergedRecord(current_data, imported_data))),
              ok |-> TRUE, error |-> None]

import_user_data_from_json_any_owner(f, upload, user) ==
    LET db == load_manual_db(f)
    IN  IF ~upload.valid
        THEN [file |-> f, ok |-> FALSE, error |-> "invalid JSON"]
        ELSE [file |-> save_manual_db(Put(db, user, upload.data)), ok |-> TRUE, error |-> None]

import_user_data_from_json_fresh_document(f, upload, user) ==
    IF ~upload.valid
    THEN [file |-> f, ok |-> FALSE, error |-> "invalid JSON"]
    ELSE IF upload.username # user
    THEN [file |-> f, ok |-> FALSE, error |-> "belongs to another user"]
    ELSE [file |-> save_manual_db(Put(EmptyDoc, user, upload.data)),
          ok |-> TRUE, error |-> None]

import_user_data_from_json(f, upload, user) ==
    LET db == load_manual_db(f)
    IN  IF ~upload.valid
        THEN [file |-> f, ok |-> FALSE, error |-> "invalid JSON"]
        ELSE IF upload.username # user
        THEN [file |-> f, ok |-> FALSE, error |-> "belongs to another user"]
        ELSE [file |-> save_manual_db(Put(db, user, upload.data)), ok |-> TRUE, error |-> None]

\* the watchlist page: a list-shaped watchlist is replaced by the dict shape
WatchlistPageMigration(f) ==
    LET db == load_manual_db(f)
        user_data == Get(db, username, <<>>)
        wl == Get(user_data, "watchlist", EmptyWatchlist)
    IN  IF wl.kind = "list"
        THEN save_manual_db(Put(db, username, Put(user_data, "watchlist", EmptyWatchlist)))
        ELSE f

-----------------------------------------------------------------------------
(* Handler actions *)

NoFetch == [pc |-> "idle"]
Idle == fetch.pc = "idle"

Apply(out) ==
    /\ Idle
    /\ Size(out.file) <= MaxEntries
    /\ file' = out.file
    /\ recommendations' = out.recommendations
    /\ toast' = out.toast
    /\ UNCHANGED <<media_type, fetch, aside>>

MediaTypes == {"movie", "tv"}
Radio == {"Elokuva", "TV-sarja"}
Keys == {"movies", "series"}

SelectMediaType(m) ==
    /\ Idle
    /\ media_type # m
    /\ media_type' = m
    /\ UNCHANGED <<file, recommendations, toast, fetch, aside>>

Pages == {"recommendations", "mark"}

\* the recommendation page passes the lookup's id and then drops the title from
\* the recommendations it shows; the mark page passes no id
OnPage(out, page, title) ==
    IF page = "recommendations"
    THEN [out EXCEPT !.recommendations = WithoutTitle(out.recommendations, title)]
    ELSE out

SearchResultAddWatched(t, mt, id, page) ==
    /\ page = "mark" => id = None
    /\ Apply(OnPage(handle_search_result_add_watched(file, recommendations, t, mt, id),
                    page, t))

SearchResultWatchlist(t, mt, id, page) ==
    /\ page = "mark" => id = None
    /\ Apply(OnPage(handle_search_result_watchlist(file, recommendations, t, mt, id),
                    page, t))

SearchResultBlacklist(t, id, page) ==
    /\ page = "mark" => id = None
    /\ Apply(OnPage(handle_search_result_blacklist(file, recommendations, media_type, t, id),
                    page, t))

WatchedAdd(t) ==
    Apply(handle_watched_add(file, recommendations, t, media_type, None))

WatchlistAdd(t) ==
    Apply(handle_watchlist_add(file, recommendations, media_type, t))

WatchlistRemove(t, k) ==
    Apply(handle_watchlist_remove(file, recommendations, t, k))

WatchlistMarkWatched(t, k) ==
    Apply(handle_watchlist_mark_watched(file, recommendations, t, k))

BlacklistAdd(t) ==
    Apply(handle_blacklist_add(file, recommendations, media_type, t))

Handlers ==
    \/ \E m \in Radio : SelectMediaType(m)
    \/ \E t \in Titles, page \in Pages : \E mt \in MediaTypes, id \in {None, TmdbOf(t)} :
          SearchResultAddWatched(t, mt, id, page)
    \/ \E t \in Titles, page \in Pages : \E mt \in MediaTypes, id \in {None, TmdbOf(t)} :
          SearchResultWatchlist(t, mt, id, page)
    \/ \E t \in Titles, page \in Pages : \E id \in {None, TmdbOf(t)} :
          SearchResultBlacklist(t, id, page)
    \/ \E t \in Titles : WatchedAdd(t)
    \/ \E t \in Titles : WatchlistAdd(t)
    \/ \E t \in Titles, k \in Keys : WatchlistRemove(t, k)
    \/ \E t \in Titles, k \in Keys : WatchlistMarkWatched(t, k)
    \/ \E t \in Titles : BlacklistAdd(t)

-----------------------------------------------------------------------------
(* Parallel Enrichment Engine *)

TypeOf(t) == IF t = "Dune" THEN "movie" ELSE "tv"

\* what the search API does with one query
Responses == {"ok", "empty", "error"}

\* (media_id, media_type) of the first hit; (None, None) on no hit, timeout or error
search_jellyseerr(title, response) ==
    IF response = "ok" THEN <<TmdbOf(title), TypeOf(title)>> ELSE <<None, None>>

\* enrichment_wrapper -> _enrich_recommendation_with_jellyseerr
enrichment_wrapper(title, response) ==
    LET found == search_jellyseerr(title, response)
    IN  [title |-> title, media_id |-> found[1], media_type |-> found[2], success |-> TRUE]

NoResult == [title |-> "", media_id |-> None, media_type |-> None, success |-> FALSE]

ApplyEnrichment_to_first(recs, i, enrichment_result) ==
    [recs EXCEPT ![1] =
        IF enrichment_result.success
        THEN Put(Put(recs[1], "media_id", enrichment_result.media_id),
                 "media_type", enrichment_result.media_type)
        ELSE Put(Put(recs[1], "media_id", None), "media_type", None)]

\* rec = futures[future]; rec['media_id'], rec['media_type'] set from its own result
ApplyEnrichment(recs, i, enrichment_result) ==
    [recs EXCEPT ![i] =
        IF enrichment_result.success
        THEN Put(Put(recs[i], "media_id", enrichment_result.media_id),
                 "media_type", enrichment_result.media_type)
        ELSE Put(Put(recs[i], "media_id", None), "media_type", None)]

Collect_only_found(enriched, i, enrichment_result) ==
    IF enrichment_result.media_id # None THEN Append(enriched, i) ELSE enriched

\* enriched_recommendations.append(rec), on success and on failure alike;
\* the list holds references into recommendations, kept here as indices
Collect(enriched, i, enrichment_result) == Append(enriched, i)

\* the objects a list of references points to
Deref(recs, enriched) == [k \in 1..Len(enriched) |-> recs[enriched[k]]]

-----------------------------------------------------------------------------
(* The recommendation fetch, step by step *)

JellyfinAnswers ==
    { [ok |-> FALSE, items |-> <<>>],
      [ok |-> TRUE, items |-> <<[title |-> "Dune", media_type |-> "movie"]>>] }

AvailableAnswers ==
    { [movies |-> <<>>, series |-> <<>>],
      [movies |-> <<create_media_entry("Dune", "movie", TmdbOf("Dune"))>>, series |-> <<>>] }

\* the AI answers with up to MaxRecs recommendations
AIAnswers ==
    UNION { [1..n -> {[title |-> t] : t \in Titles}] : n \in 0..MaxRecs }

JellyfinTitles(jf) == {jf.items[i].title : i \in 1..Len(jf.items)}

\* the file after get_jellyfin_watched_titles() and sync_jellyseerr_available_titles()
AfterSyncs(f, jf, av) ==
    sync_jellyseerr_available_titles(
        IF jf.ok THEN SaveJellyfinMetadata(f, jf.items) ELSE f, av.movies, av.series)

FetchBegin(jf, av, ai) ==
    LET synced == AfterSyncs(file, jf, av)
        db == load_manual_db(synced)
    IN  /\ Idle
        /\ Size(synced) <= MaxEntries
        /\ file' = synced
        /\ IF ai # <<>>
           THEN /\ fetch' = [pc |-> "enriching",
                             recommendations |-> ai,
                             futures |-> [i \in 1..Len(ai) |->
                                 [state |-> "running", response |-> None, result |-> NoResult]],
                             enriched_recommendations |-> <<>>,
                             db |-> db,
                             full_watched_list |-> FullWatched(db, JellyfinTitles(jf))]
           ELSE UNCHANGED fetch
        /\ recommendations' = <<>>      \* cleared when the click is accepted
        /\ UNCHANGED <<media_type, toast, aside>>

\* the lookup of task i returns (the pool has a thread for each of the first
\* five tasks as soon as it is submitted; the AI is asked for five titles)
WorkerFinish(i, response) ==
    /\ fetch.pc = "enriching"
    /\ i \in 1..Len(fetch.futures)
    /\ fetch.futures[i].state = "running"
    /\ fetch' = [fetch EXCEPT !.futures[i] =
                    [state |-> "done", response |-> response,
                     result |-> enrichment_wrapper(fetch.recommendations[i].title, response)]]
    /\ UNCHANGED <<file, media_type, recommendations, toast, aside>>

\* one turn of "for future in as_completed(futures)"
ProcessCompleted(i) ==
    /\ fetch.pc = "enriching"
    /\ i \in 1..Len(fetch.futures)
    /\ fetch.futures[i].state = "done"
    /\ fetch' = [fetch EXCEPT
                    !.futures[i].state = "yielded",
                    !.recommendations =
                        ApplyEnrichment(fetch.recommendations, i, fetch.futures[i].result),
                    !.enriched_recommendations =
                        Collect(fetch.enriched_recommendations, i, fetch.futures[i].result)]
    /\ UNCHANGED <<file, media_type, recommendations, toast, aside>>

\* availability loop, save, and the enriched list goes to the session
FetchFinish ==
    /\ fetch.pc = "enriching"
    /\ \A i \in 1..Len(fetch.futures) : fetch.futures[i].state = "yielded"
    /\ \E statusOf \in [1..Len(fetch.enriched_recommendations) -> Statuses] :
         LET enriched == Deref(fetch.recommendations, fetch.enriched_recommendations)
             db == AvailabilityLoop(enriched, 1, statusOf,
                                    fetch.full_watched_list, fetch.db)
         IN  /\ Size(save_manual_db(db)) <= MaxEntries
             /\ file' = save_manual_db(db)
             /\ recommendations' = enriched
    /\ fetch' = NoFetch
    /\ UNCHANGED <<media_type, toast, aside>>

\* the steps of a fetch whose remote calls answer from the given sets
FetchSteps(jfs, avs, ais) ==
    \/ \E jf \in jfs, av \in avs, ai \in ais : FetchBegin(jf, av, ai)
    \/ \E i \in 1..MaxRecs, response \in Responses : WorkerFinish(i, response)
    \/ \E i \in 1..MaxRecs : ProcessCompleted(i)
    \/ FetchFinish

-----------------------------------------------------------------------------
(* Backup & restore actions, and the watchlist page *)

UserRecord(m, s, d, wm, ws, a) ==
    [movies |-> m, series |-> s, do_not_recommend |-> d,
     watchlist |-> [kind |-> "dict", movies |-> wm, series |-> ws],
     available_but_unwatched |-> a,
     jellyseerr_available |-> [movies |-> <<>>, series |-> <<>>]]

\* a record as the export writes it, with a watchlist that is still a plain list
WithListWatchlist(record, items) ==
    Put(record, "watchlist", [kind |-> "list", items |-> items])

Noted(t) ==
    [kind |-> "dict", title |-> t, media_type |-> TypeOf(t),
     tmdb_id |-> TmdbOf(t), noted_at |-> "ts"]

\* the backup files the user can upload
Uploads ==
    { [valid |-> FALSE, username |-> "", data |-> <<>>],
      [valid |-> TRUE, username |-> "bob",   \* another user's backup
       data |-> UserRecord(<<StrEntry("Arrival")>>, <<>>, <<>>, <<>>, <<>>, <<>>)],
      [valid |-> TRUE, username |-> username,
       data |-> UserRecord(<<create_media_entry("Dune", "movie", TmdbOf("Dune"))>>,
                           <<>>, <<>>, <<>>, <<>>, <<>>)],
      [valid |-> TRUE, username |-> username,
       data |-> UserRecord(<<StrEntry("Dune")>>, <<>>, <<>>, <<>>,
                           <<StrEntry("Arrival")>>, <<>>)],
      [valid |-> TRUE, username |-> username,
       data |-> WithListWatchlist(UserRecord(<<>>, <<>>, <<>>, <<>>, <<>>, <<>>),
                                  <<StrEntry("Arrival")>>)] }

\* "Yhdistä tietokannat"
MergeImport(upload) ==
    LET out == merge_user_data_from_json(file, upload, username)
    IN  /\ Idle
        /\ Size(out.file) <= MaxEntries
        /\ file' = out.file
        /\ toast' = Toast(IF out.ok THEN "merged" ELSE "merge failed", out.error)
        /\ UNCHANGED <<media_type, recommendations, fetch, aside>>

\* "Korvaa tietokanta"
ReplaceImport(upload) ==
    LET out == import_user_data_from_json(file, upload, username)
    IN  /\ Idle
        /\ Size(out.file) <= MaxEntries
        /\ file' = out.file
        /\ toast' = Toast(IF out.ok THEN "replaced" ELSE "replace failed", out.error)
        /\ UNCHANGED <<media_type, recommendations, fetch, aside>>

\* the watchlist page is rendered
WatchlistPage ==
    /\ Idle
    /\ file' = WatchlistPageMigration(file)
    /\ UNCHANGED <<media_type, recommendations, toast, fetch, aside>>

-----------------------------------------------------------------------------
(* Specifications *)

DocOf(record) == (username :> record)

\* records written by earlier versions: bare-string entries, distinct titles per list
LegacyDocs ==
    { DocOf(UserRecord(<<StrEntry("Dune")>>, <<>>, <<>>, <<>>, <<>>, <<>>)),
      DocOf(UserRecord(<<>>, <<>>, <<StrEntry("Dune")>>, <<StrEntry("Arrival")>>, <<>>, <<>>)),
      DocOf(UserRecord(<<>>, <<>>, <<>>, <<StrEntry("Dune")>>, <<StrEntry("Dune")>>, <<>>)) }

InitWith(files) ==
    /\ file \in files
    /\ media_type = "Elokuva"
    /\ recommendations = <<>>
    /\ toast = NoToast
    /\ fetch = NoFetch
    /\ disk = AtRest
    /\ sessions = AtRest
    /\ session_state = AtRest
    /\ script = AtRest
    /\ prompt = AtRest
    /\ retry = AtRest
    /\ cache = AtRest

\* a session of the mutation handlers on a fresh or a legacy database
Init == InitWith({save_manual_db(d) : d \in {EmptyDoc} \cup LegacyDocs})
Next == Handlers
Spec == Init /\ [][Next]_vars

\* the same session on a database that holds no record yet
InitEmpty == InitWith({save_manual_db(EmptyDoc)})
SpecEmpty == InitEmpty /\ [][Next]_vars

\* a session that only fetches recommendations
InitFetch == InitWith({save_manual_db(EmptyDoc)})
NextFetch == FetchSteps(JellyfinAnswers, AvailableAnswers, AIAnswers)
SpecFetch == InitFetch /\ [][NextFetch]_vars

\* a session with the backup page and the watchlist page, on databases that
\* hold structured entries, noted available titles or a list-shaped watchlist,
\* one of them in a file that cannot be loaded
StoreDocs ==
    { DocOf(UserRecord(<<StrEntry("Dune")>>, <<>>, <<>>, <<>>, <<>>, <<Noted("Arrival")>>)),
      DocOf(UserRecord(<<create_media_entry("Dune", "movie", TmdbOf("Dune"))>>,
                       <<>>, <<>>, <<>>, <<>>, <<>>)),
      DocOf(WithListWatchlist(UserRecord(<<>>, <<>>, <<>>, <<>>, <<>>, <<>>),
                              <<StrEntry("Dune")>>)) }

UnloadableFiles ==
    { [ok |-> FALSE,
       doc |-> DocOf(UserRecord(<<>>, <<>>, <<StrEntry("Dune")>>, <<>>, <<>>, <<>>))] }

InitStore == InitWith({save_manual_db(d) : d \in StoreDocs} \cup UnloadableFiles)
NextStore ==
    \/ Handlers
    \/ \E upload \in Uploads : MergeImport(upload)
    \/ \E upload \in Uploads : ReplaceImport(upload)
    \/ WatchlistPage
SpecStore == InitStore /\ [][NextStore]_vars

\* databases shared by two users, under the sidebar handlers and the imports
OtherUser == "bob"
OtherUserRecord == UserRecord(<<StrEntry("Arrival")>>, <<>>, <<>>, <<>>, <<>>, <<>>)
SharedDocs ==
    { (OtherUser :> OtherUserRecord),
      (OtherUser :> OtherUserRecord) @@
          DocOf(UserRecord(<<StrEntry("Dune")>>, <<>>, <<>>, <<>>, <<>>, <<>>)) }
InitImport == InitWith({save_manual_db(d) : d \in SharedDocs})
NextImport ==
    \/ \E t \in Titles : WatchedAdd(t)
    \/ \E t \in Titles : WatchlistAdd(t)
    \/ \E t \in Titles : BlacklistAdd(t)
    \/ \E upload \in Uploads : MergeImport(upload)
    \/ \E upload \in Uploads : ReplaceImport(upload)
SpecImport == InitImport /\ [][NextImport]_vars

-----------------------------------------------------------------------------
(* Vocabulary of the properties *)

ListNames ==
    {"movies", "series", "do_not_recommend", "watchlist.movies",
     "watchlist.series", "available_but_unwatched"}

AddTargets == ListNames \ {"available_but_unwatched"}

\* the list of a user record that a name stands for
ListOfRecord(u, L) ==
    LET wl == Get(u, "watchlist", EmptyWatchlist)
    IN  CASE L = "watchlist.movies" ->
                 IF wl.kind = "dict" THEN Get(wl, "movies", <<>>) ELSE <<>>
          [] L = "watchlist.series" ->
                 IF wl.kind = "dict" THEN Get(wl, "series", <<>>) ELSE <<>>
          [] OTHER -> Get(u, L, <<>>)

\* the list as the file holds it for the logged-in user
ListOf(f, L) == ListOfRecord(Get(f.doc, username, DefaultUser), L)

\* number of entries of a list with this title, whatever their shape
Count(t, list) == Cardinality({i \in 1..Len(list) : get_media_title(list[i]) = t})

HasBare(t, list) ==
    \E i \in 1..Len(list) : list[i].kind = "str" /\ list[i].title = t

HasStructured(t, list) ==
    \E i \in 1..Len(list) : is_media_entry_dict(list[i]) /\ list[i].title = t

\* where the add buttons are: on a recommendation or search result, or on the
\* handlers that take the title and the radio choice
AddVia == {"result", "radio"}

RadioFor(L) == IF L \in {"movies", "watchlist.movies"} THEN "Elokuva" ELSE "TV-sarja"
TypeFor(L) == IF L \in {"movies", "watchlist.movies"} THEN "movie" ELSE "tv"

\* the add handler for title t into list L, run on file f
RunAdd(f, recs, radio, L, t, tmdb_id, via) ==
    CASE L \in {"movies", "series"} ->
            IF via = "result"
            THEN handle_search_result_add_watched(f, recs, t, TypeFor(L), tmdb_id)
            ELSE handle_watched_add(f, recs, t, RadioFor(L), tmdb_id)
      [] L \in {"watchlist.movies", "watchlist.series"} ->
            IF via = "result"
            THEN handle_search_result_watchlist(f, recs, t, TypeFor(L), tmdb_id)
            ELSE handle_watchlist_add(f, recs, RadioFor(L), t)
      [] OTHER ->
            IF via = "result"
            THEN handle_search_result_blacklist(f, recs, radio, t, tmdb_id)
            ELSE handle_blacklist_add(f, recs, radio, t)

AlreadyMsgs ==
    {"already listed", "already in watchlist", "already in do-not-recommend",
     "already in blacklist"}

BlacklistMsgs ==
    {"added to do-not-recommend", "already in do-not-recommend",
     "added to blacklist", "already in blacklist"}

TmdbIds(t) == {None, TmdbOf(t)}

-----------------------------------------------------------------------------
(* Properties of the mutation handlers *)

\* C1: in every state the handlers reach from lists with pairwise distinct
\* titles, no list of the user's record holds two entries with the same title,
\* a bare string and a structured entry with that title counting as the same
C1_UniqueTitlesPerList ==
    \A L \in ListNames, t \in Titles : Count(t, ListOf(file, L)) <= 1

\* C2: for every title t and target list L, running the add handler for t into
\* L twice in a row, with the same or another tmdb_id, leaves the persisted L
\* as it is after the first run, and L then holds exactly one entry titled t
C2_IdempotentAdd ==
    \A L \in AddTargets, t \in Titles, via \in AddVia :
        \A id1 \in TmdbIds(t), id2 \in TmdbIds(t) :
            LET once == RunAdd(file, recommendations, media_type, L, t, id1, via)
                twice == RunAdd(once.file, once.recommendations, media_type, L, t, id2, via)
            IN  /\ ListOf(twice.file, L) = ListOf(once.file, L)
                /\ Count(t, ListOf(twice.file, L)) = 1

\* C3: if a list already holds a bare-string entry titled t, the add handler
\* called with a structured entry for t leaves the file as it is and reports
\* that the title already exists; a structured entry titled t is found by the
\* bare title and stops the add in the same way
C3_LegacyStructuredEquivalence ==
    \A L \in AddTargets, t \in Titles, via \in AddVia : \A id \in TmdbIds(t) :
        LET list == ListOf(file, L)
            out == RunAdd(file, recommendations, media_type, L, t, id, via)
        IN  /\ HasBare(t, list) =>
                /\ out.file = file
                /\ ListOf(out.file, L) = list
                /\ out.toast.msg \in AlreadyMsgs
            /\ HasStructured(t, list) =>
                /\ find_media_in_list(t, list) # NotFound
                /\ get_media_title(list[find_media_in_list(t, list)]) = t
                /\ out.file = file
                /\ ListOf(out.file, L) = list
                /\ out.toast.msg \in AlreadyMsgs

\* an add handler has just answered "already listed" for Dune, which the
\* watched movies hold as a bare string only
C3_Witness ==
    /\ toast = Toast("already listed", "Dune")
    /\ ListOf(file, "movies") = <<StrEntry("Dune")>>

\* C4: once a blacklist handler for a title has returned, the title is in
\* neither watchlist.movies nor watchlist.series of the persisted record
C4_BlacklistedLeavesWatchlist ==
    toast.msg \in BlacklistMsgs =>
        /\ Count(toast.title, ListOf(file, "watchlist.movies")) = 0
        /\ Count(toast.title, ListOf(file, "watchlist.series")) = 0

\* C5: no title is at the same time in do_not_recommend and in
\* watchlist.movies or watchlist.series
C5_NeverBlacklistedAndWatchlisted ==
    \A t \in Titles :
        Count(t, ListOf(file, "do_not_recommend")) > 0 =>
            /\ Count(t, ListOf(file, "watchlist.movies")) = 0
            /\ Count(t, ListOf(file, "watchlist.series")) = 0

-----------------------------------------------------------------------------
(* Properties of the parallel enrichment *)

TitleSeq(recs) == [k \in 1..Len(recs) |-> recs[k].title]

\* the as_completed loop has handled every future
EnrichmentDone ==
    /\ fetch.pc = "enriching"
    /\ \A i \in 1..Len(fetch.futures) : fetch.futures[i].state = "yielded"

\* the lookups that failed: the search API timed out or answered with an error
FailedLookups ==
    {i \in 1..Len(fetch.futures) : fetch.futures[i].response = "error"}

\* C6: whatever the order in which the lookups complete, the list stored in
\* the session has the titles of the AI's answer in the order of that answer
C6_EnrichedOrderIsInputOrder ==
    [][(fetch.pc = "enriching" /\ fetch'.pc = "idle") =>
            TitleSeq(recommendations') = TitleSeq(fetch.recommendations)]_vars

\* C7: if exactly one lookup fails, the loop still handles every completed
\* future, the failed recommendation ends with media_id and media_type None,
\* and every other one ends with the id and type its own lookup returned
C7_FaultIsolation ==
    /\ fetch.pc = "enriching" =>
          \A i \in 1..Len(fetch.futures) :
              fetch.futures[i].state = "done" => ENABLED ProcessCompleted(i)
    /\ (EnrichmentDone /\ Cardinality(FailedLookups) = 1) =>
          \A i \in 1..Len(fetch.recommendations) :
              LET rec == fetch.recommendations[i]
                  own == search_jellyseerr(rec.title, fetch.futures[i].response)
              IN  /\ "media_id" \in DOMAIN rec /\ "media_type" \in DOMAIN rec
                  /\ IF i \in FailedLookups
                     THEN rec.media_id = None /\ rec.media_type = None
                     ELSE rec.media_id = own[1] /\ rec.media_type = own[2]

\* two lookups, the first failed and the second found its title
C7_Witness ==
    /\ EnrichmentDone
    /\ Len(fetch.futures) = 2
    /\ fetch.futures[1].response = "error"
    /\ fetch.futures[2].response = "ok"
    /\ fetch.recommendations[2].media_id = TmdbOf(fetch.recommendations[2].title)

\* C8: for every non-empty answer of the AI and every combination of lookup
\* successes and failures, the enriched list holds every recommendation of
\* the answer exactly once
C8_EveryRecommendationOnce ==
    EnrichmentDone =>
        /\ Len(fetch.enriched_recommendations) = Len(fetch.recommendations)
        /\ \A i \in 1..Len(fetch.recommendations) :
              Cardinality({k \in 1..Len(fetch.enriched_recommendations) :
                              fetch.enriched_recommendations[k] = i}) = 1

\* two lookups, one failed and one found nothing, both recommendations kept
C8_Witness ==
    /\ EnrichmentDone
    /\ Len(fetch.recommendations) = 2
    /\ fetch.futures[1].response = "empty"
    /\ fetch.futures[2].response = "error"
    /\ Len(fetch.enriched_recommendations) = 2

-----------------------------------------------------------------------------
(* Properties of backup & restore and of the stored entries *)

\* the items of a watchlist that still is a plain list
LegacyWatchlistItems(f) ==
    LET wl == Get(Get(f.doc, username, DefaultUser), "watchlist", EmptyWatchlist)
    IN  IF wl.kind = "list" THEN wl.items ELSE <<>>

\* the entries the file holds for the user: which title in which list
Entries(f) ==
    {e \in ListNames \X Titles : Count(e[2], ListOf(f, e[1])) > 0}
        \cup {<<"watchlist", t>> : t \in TitlesOf(LegacyWatchlistItems(f))}

\* every entry of f is in g, an entry of a list-shaped watchlist possibly
\* moved to watchlist.movies or watchlist.series
Kept(f, g) ==
    \A e \in Entries(f) :
        \/ e \in Entries(g)
        \/ /\ e[1] = "watchlist"
           /\ \E k \in {"watchlist.movies", "watchlist.series"} : <<k, e[2]>> \in Entries(g)

ExplicitRemoval ==
    \/ \E t \in Titles, k \in Keys : WatchlistRemove(t, k)
    \/ \E t \in Titles, k \in Keys : WatchlistMarkWatched(t, k)
    \/ \E t \in Titles : BlacklistAdd(t)

ReplaceStep == \E upload \in Uploads : ReplaceImport(upload)

\* C9: a merge import of a list that holds a title as a bare string on one
\* side and as a structured entry on the other leaves exactly one entry for
\* the title, the structured one
C9_MergePrefersStructured ==
    [][\A upload \in Uploads :
          (file.ok /\ MergeImport(upload) /\ toast'.msg = "merged") =>
              \A L \in AddTargets, t \in Titles :
                  LET cur == ListOf(file, L)
                      imp == ListOfRecord(upload.data, L)
                  IN  (\/ HasBare(t, cur) /\ HasStructured(t, imp)
                       \/ HasStructured(t, cur) /\ HasBare(t, imp))
                      => /\ Count(t, ListOf(file', L)) = 1
                         /\ HasStructured(t, ListOf(file', L))]_vars

\* C10: a step that is neither an explicit removal nor a replace import
\* keeps every entry of every list of the user's persisted record
C10_NoEntryDropped ==
    [][(~ExplicitRemoval /\ ~ReplaceStep) => Kept(file, file')]_vars

-----------------------------------------------------------------------------
\* Backup ownership

ForeignUploads == {u \in Uploads : u.valid /\ u.username # username}
ImportFailures == {"merge failed", "replace failed"}

\* C11: an upload whose username field differs from the logged-in username
\* makes both the merge import and the replace import return failure, and
\* the database file is the one it was before (nothing is saved).
C11_ForeignUploadRejected ==
    /\ [](\A upload \in ForeignUploads :
            /\ merge_user_data_from_json(file, upload, username)
                  = [file |-> file, ok |-> FALSE, error |-> "belongs to another user"]
            /\ import_user_data_from_json(file, upload, username)
                  = [file |-> file, ok |-> FALSE, error |-> "belongs to another user"])
    /\ [][\A upload \in ForeignUploads :
            MergeImport(upload) \/ ReplaceImport(upload)
                => file' = file /\ toast'.msg \in ImportFailures]_vars

C11_Witness ==
    /\ toast.msg \in ImportFailures
    /\ toast.title = "belongs to another user"
    /\ OtherUser \in DOMAIN file.doc

\* C12: after a successful replace import on a database file that loads, the
\* user's record is the upload's data field and every other user's record is
\* the one the file held before.
C12_ReplaceTouchesOneRecord ==
    [][\A upload \in Uploads :
         file.ok /\ ReplaceImport(upload) /\ toast'.msg = "replaced"
            => /\ file'.ok
               /\ file'.doc[username] = upload.data
               /\ DOMAIN file'.doc = DOMAIN file.doc \cup {username}
               /\ \A other \in DOMAIN file.doc \ {username} :
                     file'.doc[other] = file.doc[other]]_vars

C12_Witness ==
    /\ toast.msg = "replaced"
    /\ \E upload \in Uploads : upload.username = username /\ file.doc[username] = upload.data
    /\ OtherUser \in DOMAIN file.doc
    /\ file.doc[OtherUser] = OtherUserRecord

-----------------------------------------------------------------------------
(* The database file as text *)

\* what a file holds: the members written so far in file order, whether the
\* closing brace was written, and the indentation of the text
Text(members, closed, indent) ==
    [exists |-> TRUE, members |-> members, closed |-> closed, indent |-> indent]
Absent == [exists |-> FALSE, members |-> <<>>, closed |-> FALSE, indent |-> "0"]

Member(key, value) == [key |-> key, value |-> value]

\* the order in which a document's usernames are written
KeyOrder == <<username, OtherUser>>
Members(db) ==
    LET present == SelectSeq(KeyOrder, LAMBDA k : k \in DOMAIN db)
    IN  [i \in 1..Len(present) |-> Member(present[i], db[present[i]])]

\* json.dump(db, f, ensure_ascii=False, indent=4) that wrote only the first member
json_dump_first_member(db) ==
    Text(SubSeq(Members(db), 1, Min({1, Len(Members(db))})), TRUE, "4")

\* json.dump(db, f, ensure_ascii=False, indent=4), run to its end
json_dump(db) == Text(Members(db), TRUE, "4")

\* json.dump stopped by an error after `written` members
PartialDump(db, written) ==
    Text(SubSeq(Members(db), 1, Min({written, Len(Members(db))})), FALSE, "4")

\* the members read from a text; of two members with one key the later one counts
Parsed(text) ==
    LET keys == {text.members[i].key : i \in 1..Len(text.members)}
        last(k) == CHOOSE i \in 1..Len(text.members) :
                      /\ text.members[i].key = k
                      /\ \A j \in 1..Len(text.members) :
                            text.members[j].key = k => j <= i
    IN  [k \in keys |-> text.members[last(k)].value]

IsValidJson(text) == text.exists /\ text.closed

\* json.load(f): the document, or which exception it raises
json_load(text) ==
    IF ~text.exists THEN [raised |-> "FileNotFoundError", data |-> EmptyDoc]
    ELSE IF ~text.closed THEN [raised |-> "JSONDecodeError", data |-> EmptyDoc]
    ELSE [raised |-> None, data |-> Parsed(text)]

ReadFaults == {None, "OSError"}

\* load_manual_db that hands back whatever members it could read
load_manual_db_keeping_members(d, fault) ==
    [db |-> Parsed(d.db),
     raised |-> IF fault # None THEN fault ELSE json_load(d.db).raised]

\* load_manual_db on the files: the document handed back, and the exception it caught
load_manual_db_from_disk(d, fault) ==
    IF fault # None THEN [db |-> EmptyDoc, raised |-> fault]
    ELSE LET read == json_load(d.db)
         IN  [db |-> IF read.raised = None THEN read.data ELSE EmptyDoc,
              raised |-> read.raised]

\* what can go wrong in one save_manual_db call
NoFault == [not_a_dict |-> FALSE, copy |-> FALSE, write |-> None, written |-> 0]
SaveFaults ==
    {NoFault, [NoFault EXCEPT !.not_a_dict = TRUE], [NoFault EXCEPT !.copy = TRUE],
     [NoFault EXCEPT !.write = "open"],
     [NoFault EXCEPT !.write = "dump"],
     [NoFault EXCEPT !.write = "dump", !.written = 1]}
SaveFailed(fault) == fault.not_a_dict \/ fault.write # None

\* save_manual_db that copies the backup after writing the file
save_manual_db_backup_last(d, db, fault) ==
    [db |-> json_dump(db), backup |-> IF d.db.exists THEN json_dump(db) ELSE d.backup]

\* save_manual_db that keeps the members of the file the document does not have
save_manual_db_merging(d, db, fault) ==
    [db |-> json_dump(db @@ Parsed(d.db)), backup |-> d.db]

\* save_manual_db on the files
save_manual_db_on_disk(d, db, fault) ==
    LET copied == IF d.db.exists /\ ~fault.copy
                  THEN [d EXCEPT !.backup = d.db]
                  ELSE d
    IN  IF fault.not_a_dict THEN d                         \* ValueError before any file is touched
        ELSE IF fault.write = "open" THEN copied           \* open(DATABASE_FILE, "w") raised
        ELSE IF fault.write = "dump"                       \* the file is open and truncated
        THEN [copied EXCEPT !.db = PartialDump(db, fault.written)]
        ELSE [copied EXCEPT !.db = json_dump(db)]

-----------------------------------------------------------------------------
(* Sessions: load, change in memory, save *)

Sessions == {"first", "second"}
Other(s) == IF s = "first" THEN "second" ELSE "first"
Users == {username, OtherUser}

\* lines 1111-1128 of the add handler on the loaded document
AddWatchedInMemory(db, user, title) ==
    LET with_user == SetDefault(db, user, DefaultUser)
        user_data == with_user[user]
        idx == find_media_in_list(title, Get(user_data, "movies", <<>>))
        media_entry == create_media_entry(title, "movie", None)
    IN  [found |-> idx # NotFound,
         db |-> IF idx # NotFound THEN with_user
                ELSE Put(with_user, user,
                         Put(user_data, "movies",
                             Append(Get(user_data, "movies", <<>>), media_entry)))]

NewSession(user) ==
    [pc |-> "idle", user |-> user, db |-> EmptyDoc, loaded |-> EmptyDoc, title |-> None,
     load_error |-> None, stale |-> FALSE, last |-> FALSE, save_failed |-> FALSE]

Load(s, fault) ==
    /\ sessions[s].pc = "idle"
    /\ LET got == load_manual_db_from_disk(disk, fault)
       IN  sessions' = [sessions EXCEPT ![s] =
               [@ EXCEPT !.pc = "loaded", !.db = got.db, !.loaded = got.db,
                         !.title = None, !.load_error = got.raised, !.stale = FALSE]]
    /\ UNCHANGED <<disk, app, session_state, script, prompt, retry, cache>>

Modify(s, title) ==
    /\ sessions[s].pc = "loaded"
    /\ LET out == AddWatchedInMemory(sessions[s].db, sessions[s].user, title)
       IN  sessions' = [sessions EXCEPT ![s] =
               [@ EXCEPT !.pc = IF out.found THEN "done" ELSE "modified",
                         !.db = out.db, !.title = title]]
    /\ UNCHANGED <<disk, app, session_state, script, prompt, retry, cache>>

\* the session saves the document as it was loaded (a fetch that adds nothing)
KeepAsLoaded(s) ==
    /\ sessions[s].pc = "loaded"
    /\ sessions' = [sessions EXCEPT ![s].pc = "modified"]
    /\ UNCHANGED <<disk, app, session_state, script, prompt, retry, cache>>

Save(s, fault) ==
    /\ sessions[s].pc = "modified"
    /\ disk' = save_manual_db_on_disk(disk, sessions[s].db, fault)
    /\ sessions' = [t \in Sessions |->
          IF t = s
          THEN [sessions[t] EXCEPT !.pc = "saved", !.last = TRUE,
                                   !.save_failed = SaveFailed(fault)]
          ELSE [sessions[t] EXCEPT !.last = FALSE,
                   !.stale = @ \/ sessions[t].pc \in {"loaded", "modified"}]]
    /\ UNCHANGED <<app, session_state, script, prompt, retry, cache>>

SharedRecord == UserRecord(<<StrEntry("Dune")>>, <<>>, <<>>, <<>>, <<>>, <<>>)
DiskDocs ==
    { EmptyDoc, DocOf(SharedRecord), (OtherUser :> OtherUserRecord) @@ DocOf(SharedRecord) }

\* files as found: written by the program, written by hand, cut short, or missing
DiskTexts ==
    {json_dump(d) : d \in DiskDocs} \cup
    { Absent,
      Text(<<Member(OtherUser, OtherUserRecord), Member(username, SharedRecord)>>, TRUE, "0"),
      Text(<<Member(username, DefaultUser), Member(username, SharedRecord)>>, TRUE, "0"),
      Text(<<Member(username, SharedRecord)>>, FALSE, "4"),
      Text(<<>>, FALSE, "0") }

InitDisk ==
    /\ disk \in {[db |-> text, backup |-> Absent] : text \in DiskTexts}
    /\ sessions \in {[s \in Sessions |-> NewSession(IF s = "first" THEN username ELSE u)] :
                        u \in Users}
    /\ file = save_manual_db(EmptyDoc)
    /\ media_type = "Elokuva"
    /\ recommendations = <<>>
    /\ toast = NoToast
    /\ fetch = NoFetch
    /\ session_state = AtRest
    /\ script = AtRest
    /\ prompt = AtRest
    /\ retry = AtRest
    /\ cache = AtRest

NextDisk ==
    \/ \E s \in Sessions, fault \in ReadFaults : Load(s, fault)
    \/ \E s \in Sessions, title \in Titles : Modify(s, title)
    \/ \E s \in Sessions : KeepAsLoaded(s)
    \/ \E s \in Sessions, fault \in SaveFaults : Save(s, fault)

SpecDisk == InitDisk /\ [][NextDisk]_vars

-----------------------------------------------------------------------------
\* Load, save and the backup file

SavedDoc == json_load(disk.db).data
MoviesOf(db, user) == TitlesOf(Get(Get(db, user, DefaultUser), "movies", <<>>))

\* C13: loading a file that holds invalid JSON hands back the empty document
\* (the exception is caught), and the save that follows writes a file that
\* holds valid JSON equal to the saved document.
C13_CorruptFileResets ==
    /\ [](disk.db.exists /\ ~disk.db.closed
            => load_manual_db_from_disk(disk, None)
                  = [db |-> EmptyDoc, raised |-> "JSONDecodeError"])
    /\ [][\A s \in Sessions :
            sessions[s].load_error = "JSONDecodeError" /\ Save(s, NoFault)
                => IsValidJson(disk'.db) /\ json_load(disk'.db).data = sessions[s].db]_vars

C13_Witness ==
    \E s \in Sessions :
        /\ sessions[s].pc = "saved"
        /\ sessions[s].load_error = "JSONDecodeError"
        /\ ~sessions[s].save_failed
        /\ sessions[s].last
        /\ sessions[s].title # None
        /\ SavedDoc = sessions[s].db
        /\ ~disk.backup.closed /\ Len(disk.backup.members) = 1

\* C14: when the file holds a valid document D, loading it and saving what
\* was loaded leaves a file that holds D, and a second load and save leaves
\* the file text as the first one wrote it.
C14_LoadSaveRoundTrip ==
    IsValidJson(disk.db) =>
        LET once == save_manual_db_on_disk(
                        disk, load_manual_db_from_disk(disk, None).db, NoFault)
            twice == save_manual_db_on_disk(
                        once, load_manual_db_from_disk(once, None).db, NoFault)
        IN  /\ IsValidJson(once.db)
            /\ json_load(once.db).data = SavedDoc
            /\ twice.db = once.db

C14_Witness ==
    \E s \in Sessions :
        /\ sessions[s].pc = "saved"
        /\ sessions[s].title = None
        /\ sessions[s].load_error = None
        /\ ~sessions[s].save_failed
        /\ disk.backup.closed /\ disk.backup.indent = "0"
        /\ Len(disk.backup.members) = 2
        /\ disk.db # disk.backup
        /\ SavedDoc = json_load(disk.backup).data

\* C15: a save that succeeds on an existing database file, with the backup
\* copy not failing, leaves in the .backup file the text the database file
\* held right before the save.
C15_BackupIsPreviousContent ==
    [][\A s \in Sessions, fault \in SaveFaults :
          /\ Save(s, fault)
          /\ ~SaveFailed(fault) /\ ~fault.copy
          /\ disk.db.exists
          => disk'.backup = disk.db]_vars

C15_Witness ==
    \E s \in Sessions :
        /\ sessions[s].pc = "saved" /\ sessions[s].last
        /\ ~sessions[s].save_failed
        /\ sessions[s].title # None
        /\ IsValidJson(disk.backup)
        /\ SavedDoc = sessions[s].db
        /\ SavedDoc # json_load(disk.backup).data
        /\ sessions[s].loaded = json_load(disk.backup).data

\* C16: a save that fails (argument not a mapping, error on open, error while
\* the document is written) leaves the database file with the text it had
\* before the call.
C16_SaveAllOrNothing ==
    [][\A s \in Sessions, fault \in SaveFaults :
          Save(s, fault) /\ SaveFailed(fault) => disk'.db = disk.db]_vars

\* C17: the file holds the in-memory document of the session that saved last;
\* when that session loaded before the other one saved, the title the other
\* one added is not in the file, whichever usernames the two act on.
C17_LastSaverWins ==
    \A s \in Sessions :
        LET o == Other(s)
        IN  /\ sessions[s].pc = "saved" /\ sessions[s].last /\ ~sessions[s].save_failed
                => SavedDoc = sessions[s].db
            /\ ( /\ sessions[s].pc = "saved" /\ sessions[s].last /\ ~sessions[s].save_failed
                 /\ sessions[o].pc = "saved" /\ ~sessions[o].save_failed
                 /\ sessions[s].stale
                 /\ sessions[o].title # None
                 /\ sessions[o].title \notin MoviesOf(sessions[s].loaded, sessions[o].user)
                 /\ <<sessions[o].user, sessions[o].title>>
                        # <<sessions[s].user, sessions[s].title>> )
                => sessions[o].title \notin MoviesOf(SavedDoc, sessions[o].user)

C17_Witness ==
    \E s \in Sessions :
        /\ sessions[s].pc = "saved" /\ sessions[s].last /\ ~sessions[s].save_failed
        /\ sessions[Other(s)].pc = "saved" /\ ~sessions[Other(s)].save_failed
        /\ sessions[s].stale
        /\ sessions[s].user # sessions[Other(s)].user
        /\ sessions[s].title # None /\ sessions[Other(s)].title # None
        /\ sessions[Other(s)].title \notin MoviesOf(sessions[s].loaded, sessions[Other(s)].user)
        /\ sessions[Other(s)].title \notin MoviesOf(SavedDoc, sessions[Other(s)].user)
        /\ sessions[Other(s)].title \in MoviesOf(sessions[Other(s)].db, sessions[Other(s)].user)

-----------------------------------------------------------------------------
(* The fetch button, its rate limiter and the fetch block *)

Cooldown == 5         \* check_rate_limit(cooldown_seconds=5)
MaxTime == 11         \* the clock stops here

\* the keys as the top of the script and init_rate_limiter create them; a key
\* that logout deleted is created again before the script reads it
FreshSessionState ==
    [jellyfin_session |-> None,
     current_page |-> "recommendations",
     should_fetch_recommendations |-> FALSE,
     recommendations_fetched |-> FALSE,
     last_error |-> None,
     gemini_last_request_time |-> 0,
     gemini_busy |-> FALSE,
     gemini_prev_results_displayed |-> TRUE,
     api_empty_last_fetch |-> FALSE]

check_rate_limit(ss, now) == now - ss.gemini_last_request_time >= Cooldown

update_rate_limit_timestamp(ss, now) == [ss EXCEPT !.gemini_last_request_time = now]

\* the after-fetch messages and gates of the recommendations page
AfterFetchGates(ss, recs) ==
    LET shown == \/ ss.recommendations_fetched /\ recs # <<>>
                 \/ ss.recommendations_fetched /\ recs = <<>> /\ ss.api_empty_last_fetch
                 \/ ss.last_error \notin {None, ""}
    IN  IF shown
        THEN [ss EXCEPT !.gemini_prev_results_displayed = TRUE, !.gemini_busy = FALSE,
                        !.last_error = IF @ \notin {None, ""} THEN None ELSE @]
        ELSE ss

\* the status message the gates show: success, warning, or none of the two
Notice(ss, recs) ==
    CASE ss.recommendations_fetched /\ recs # <<>> -> "success"
      [] ss.recommendations_fetched /\ recs = <<>> /\ ss.api_empty_last_fetch -> "warning"
      [] OTHER -> None

\* one render of the recommendations page outside a fetch: the gates, the list,
\* and the flag set at the end of the displaying section
RenderRecommendationsPage(ss, recs) ==
    LET gated == AfterFetchGates(ss, recs)
    IN  IF gated.recommendations_fetched
        THEN [gated EXCEPT !.gemini_prev_results_displayed = TRUE]
        ELSE gated

\* what the remote calls of one fetch come to
FetchErrors == {"Connection refused", ""}       \* str(e)
Outcomes ==
    {[kind |-> "answer", ai |-> a, error |-> None, late |-> FALSE] : a \in AIAnswers}
    \cup {[kind |-> "raise", ai |-> <<>>, error |-> e, late |-> l] :
             e \in FetchErrors, l \in BOOLEAN}

\* every lookup of the enrichment comes back without a match
Enriched(ai) == [k \in 1..Len(ai) |-> ApplyEnrichment(ai, k, NoResult)[k]]

\* the try block and its except clause: session state and recommendations
TryBlock(ss, recs, outcome) ==
    CASE outcome.kind = "raise" ->
            [ss |-> [ss EXCEPT !.recommendations_fetched = FALSE,
                               !.last_error = outcome.error,
                               !.api_empty_last_fetch =
                                   IF outcome.late THEN FALSE ELSE @],
             recs |-> recs]
      [] outcome.kind = "answer" /\ outcome.ai # <<>> ->
            [ss |-> [ss EXCEPT !.api_empty_last_fetch = FALSE,
                               !.recommendations_fetched = TRUE],
             recs |-> Enriched(outcome.ai)]
      [] OTHER ->
            [ss |-> [ss EXCEPT !.api_empty_last_fetch = TRUE,
                               !.recommendations_fetched = FALSE],
             recs |-> <<>>]

\* the fetch block with the clean-up written at the end of the try block
FetchBlock_cleanup_in_try(ss, recs, outcome, now) ==
    LET tried == TryBlock(ss, recs, outcome)
    IN  IF outcome.kind = "raise" THEN tried
        ELSE [ss |-> update_rate_limit_timestamp(
                         [tried.ss EXCEPT !.should_fetch_recommendations = FALSE,
                                          !.gemini_busy = FALSE], now),
              recs |-> tried.recs]

\* try / except / finally of the fetch block
FetchBlock(ss, recs, outcome, now) ==
    LET tried == TryBlock(ss, recs, outcome)
    IN  [ss |-> update_rate_limit_timestamp(
                    [tried.ss EXCEPT !.should_fetch_recommendations = FALSE,
                                     !.gemini_busy = FALSE], now),
         recs |-> tried.recs]

LoggedIn == session_state.jellyfin_session # None
OnRecommendationsPage == LoggedIn /\ session_state.current_page = "recommendations"
Between == ~script.fetching       \* no script run is in progress

Tick ==
    /\ script.now < MaxTime
    /\ script' = [script EXCEPT !.now = @ + 1]
    /\ UNCHANGED <<session_state, app, disk, sessions, prompt, retry, cache>>

Login ==
    /\ Between /\ ~LoggedIn
    /\ session_state' = [session_state EXCEPT !.jellyfin_session = username]
    /\ UNCHANGED <<script, app, disk, sessions, prompt, retry, cache>>

\* every key of the session state is deleted; the rerun starts from the top
Logout ==
    /\ Between /\ LoggedIn
    /\ session_state' = FreshSessionState
    /\ recommendations' = <<>>
    /\ UNCHANGED <<script, file, media_type, toast, fetch, disk, sessions, prompt, retry, cache>>

Views == {"recommendations", "watchlist", "mark", "info"}

Navigate(page) ==
    /\ Between /\ LoggedIn
    /\ session_state.current_page # page
    /\ session_state' =
          IF page = "recommendations"
          THEN AfterFetchGates([session_state EXCEPT !.current_page = page], recommendations)
          ELSE [session_state EXCEPT !.current_page = page]
    /\ UNCHANGED <<script, app, disk, sessions, prompt, retry, cache>>

\* a rerun of the recommendations page with no button pressed
Rerun ==
    /\ Between /\ OnRecommendationsPage
    /\ session_state' = RenderRecommendationsPage(session_state, recommendations)
    /\ UNCHANGED <<script, app, disk, sessions, prompt, retry, cache>>

\* the fetch button is pressed; the script runs up to the start of the fetch block
ClickFetch ==
    /\ Between /\ OnRecommendationsPage
    /\ IF check_rate_limit(session_state, script.now)
       THEN /\ session_state' = [session_state EXCEPT
                    !.should_fetch_recommendations = TRUE,
                    !.gemini_prev_results_displayed = FALSE,
                    !.recommendations_fetched = FALSE,
                    !.last_error = None,
                    !.gemini_busy = TRUE]
            /\ recommendations' = <<>>
            /\ script' = [script EXCEPT !.fetching = TRUE, !.started_at = script.now]
       ELSE /\ session_state' = RenderRecommendationsPage(session_state, recommendations)
            /\ UNCHANGED <<recommendations, script>>
    /\ UNCHANGED <<file, media_type, toast, fetch, disk, sessions, prompt, retry, cache>>

\* the fetch block runs to its end
FetchEnd(outcome) ==
    /\ script.fetching
    /\ LET out == FetchBlock(session_state, recommendations, outcome, script.now)
       IN  /\ session_state' = out.ss
           /\ recommendations' = out.recs
    /\ script' = [script EXCEPT !.fetching = FALSE, !.completed_at = script.now]
    /\ UNCHANGED <<file, media_type, toast, fetch, disk, sessions, prompt, retry, cache>>

InitLimiter ==
    /\ session_state = FreshSessionState
    /\ script = [now |-> Cooldown, fetching |-> FALSE, started_at |-> 0, completed_at |-> 0]
    /\ file = save_manual_db(EmptyDoc)
    /\ media_type = "Elokuva"
    /\ recommendations = <<>>
    /\ toast = NoToast
    /\ fetch = NoFetch
    /\ disk = AtRest
    /\ sessions = AtRest
    /\ prompt = AtRest
    /\ retry = AtRest
    /\ cache = AtRest

NextLimiter ==
    \/ Tick
    \/ Login
    \/ Logout
    \/ \E page \in Views : Navigate(page)
    \/ Rerun
    \/ ClickFetch
    \/ \E outcome \in Outcomes : FetchEnd(outcome)

SpecLimiter == InitLimiter /\ [][NextLimiter]_vars

\* C18: no fetch starts less than the cooldown after the previous fetch of
\* the session completed, whatever the user did in between.
C18_NoFetchInsideCooldown ==
    [][~script.fetching /\ script'.fetching /\ script.completed_at > 0
          => script.now - script.completed_at >= Cooldown]_vars

Success ==
    /\ recommendations # <<>>
    /\ session_state.recommendations_fetched
    /\ session_state.last_error = None
EmptyFromAPI ==
    /\ recommendations = <<>>
    /\ ~session_state.recommendations_fetched
    /\ session_state.api_empty_last_fetch
    /\ session_state.last_error = None
Failed ==
    /\ ~session_state.recommendations_fetched
    /\ session_state.last_error # None

ExactlyOne(a, b, c) == (a /\ ~b /\ ~c) \/ (~a /\ b /\ ~c) \/ (~a /\ ~b /\ c)

\* C19: when a fetch ends it has come to exactly one of Success, EmptyFromAPI
\* and Failed, and gemini_busy and should_fetch_recommendations are false and
\* the cooldown timestamp is the time of completion, also after an exception;
\* while it runs both flags are true.
C19_FetchEndsIdle ==
    /\ [](script.fetching
            => session_state.gemini_busy /\ session_state.should_fetch_recommendations)
    /\ [][script.fetching /\ ~script'.fetching
            => /\ ExactlyOne(Success', EmptyFromAPI', Failed')
               /\ ~session_state'.gemini_busy
               /\ ~session_state'.should_fetch_recommendations
               /\ session_state'.gemini_last_request_time = script'.now
               /\ script'.completed_at = script'.now]_vars

C19_Witness ==
    /\ ~script.fetching
    /\ Failed
    /\ session_state.last_error = ""
    /\ ~session_state.gemini_busy
    /\ ~session_state.should_fetch_recommendations
    /\ session_state.gemini_last_request_time = script.now
    /\ script.completed_at > script.started_at

-----------------------------------------------------------------------------
(* The prompt and its excluded titles *)

\* [get_media_title(entry) for entry in ...]
TitleList(list) == [i \in 1..Len(list) |-> get_media_title(list[i])]

\* sorted(list(set(...))) on the titles of the model
AlphaRank(t) == CASE t = "Arrival" -> 1 [] t = "Dune" -> 2 [] OTHER -> 0
Sorted(S) ==
    CHOOSE seq \in [1..Cardinality(S) -> S] :
        /\ {seq[i] : i \in 1..Len(seq)} = S
        /\ \A i \in 1..(Len(seq) - 1) : AlphaRank(seq[i]) < AlphaRank(seq[i + 1])

\* a line of the prompt, kept as its pieces: the titles and the ", " between
\* them, or the words that stand for an empty list
TitlePiece(t) == [piece |-> "title", text |-> t]
Separator == [piece |-> "separator", text |-> ", "]
NoTitles == [piece |-> "words", text |-> "ei yhtään"]

\* ", ".join(titles) if titles else "ei yhtään"
Join(titles) ==
    IF titles = <<>> THEN <<NoTitles>>
    ELSE [i \in 1..(2 * Len(titles) - 1) |->
             IF i % 2 = 1 THEN TitlePiece(titles[(i + 1) \div 2]) ELSE Separator]

\* build_prompt that leaves the available titles out of the block
build_prompt_three_lists(mtype, watched_list, watchlist, do_not_recommend_list, available_list) ==
    [model_media_type |-> IF Lower(mtype) \in {"elokuva", "movie"} THEN "MOVIE" ELSE "TV SERIES",
     excluded_titles |-> <<Join(watched_list), Join(watchlist), Join(do_not_recommend_list)>>]

\* build_prompt: the parts of the text that depend on the arguments (every
\* item handed over by the fetch block is a string, so every item is kept)
build_prompt(mtype, watched_list, watchlist, do_not_recommend_list, available_list) ==
    [model_media_type |-> IF Lower(mtype) \in {"elokuva", "movie"} THEN "MOVIE" ELSE "TV SERIES",
     excluded_titles |-> <<Join(watched_list), Join(watchlist), Join(do_not_recommend_list),
                           Join(available_list)>>]

NoPrompt == [model_media_type |-> None, excluded_titles |-> <<>>]

\* the lists of a fetch that gives up the local record when no remote title came
ExclusionLists_needing_history(db, jellyfin_titles) ==
    LET user_db_entry == Get(db, username,
            [movies |-> <<>>, series |-> <<>>, do_not_recommend |-> <<>>,
             watchlist |-> EmptyWatchlist])
        watchlist_dict == Get(user_db_entry, "watchlist", EmptyWatchlist)
    IN  IF jellyfin_titles = {}
        THEN [full_watched_list |-> <<>>, watchlist |-> <<>>, blacklist |-> <<>>,
              available_but_unwatched |-> <<>>]
        ELSE [full_watched_list |-> Sorted(FullWatched(db, jellyfin_titles)),
              watchlist |-> TitleList(Get(watchlist_dict, "movies", <<>>))
                               \o TitleList(Get(watchlist_dict, "series", <<>>)),
              blacklist |-> TitleList(Get(user_db_entry, "do_not_recommend", <<>>)),
              available_but_unwatched |->
                  TitleList(Get(user_db_entry, "available_but_unwatched", <<>>))]

\* the lists the fetch block reads from the record and from the watch history
ExclusionLists(db, jellyfin_titles) ==
    LET user_db_entry == Get(db, username,
            [movies |-> <<>>, series |-> <<>>, do_not_recommend |-> <<>>,
             watchlist |-> EmptyWatchlist])
        watchlist_dict == Get(user_db_entry, "watchlist", EmptyWatchlist)
    IN  [full_watched_list |-> Sorted(FullWatched(db, jellyfin_titles)),
         watchlist |-> TitleList(Get(watchlist_dict, "movies", <<>>))
                          \o TitleList(Get(watchlist_dict, "series", <<>>)),
         blacklist |-> TitleList(Get(user_db_entry, "do_not_recommend", <<>>)),
         available_but_unwatched |->
             TitleList(Get(user_db_entry, "available_but_unwatched", <<>>))]

\* the prompt the fetch block builds from a database and a watch history
PromptFor(db, jellyfin_titles, mtype) ==
    LET lists == ExclusionLists(db, jellyfin_titles)
    IN  build_prompt(mtype, lists.full_watched_list, lists.watchlist, lists.blacklist,
                     lists.available_but_unwatched)

\* records with overlapping and disjoint lists, bare and structured entries
OneEntryLists ==
    {<<>>, <<StrEntry("Dune")>>, <<create_media_entry("Arrival", "movie", TmdbOf("Arrival"))>>}
PromptRecords ==
    { UserRecord(m, <<>>, d, wm, ws, a) :
        m \in OneEntryLists, d \in OneEntryLists, wm \in OneEntryLists,
        ws \in {<<>>, <<StrEntry("Arrival")>>},
        a \in {<<>>, <<Noted("Dune")>>, <<Noted("Dune"), Noted("Arrival")>>} }

BuildPrompt ==
    /\ ~prompt.built
    /\ prompt' = [prompt EXCEPT !.built = TRUE, !.text =
                     PromptFor(prompt.db, JellyfinTitles(prompt.jellyfin_watched), prompt.media_type)]
    /\ UNCHANGED <<app, disk, sessions, session_state, script, retry, cache>>

InitPrompt ==
    /\ prompt \in {[db |-> DocOf(r), jellyfin_watched |-> jf, media_type |-> mt,
                            built |-> FALSE, text |-> NoPrompt] :
                      r \in PromptRecords, jf \in JellyfinAnswers, mt \in Radio}
    /\ file = save_manual_db(EmptyDoc)
    /\ media_type = "Elokuva"
    /\ recommendations = <<>>
    /\ toast = NoToast
    /\ fetch = NoFetch
    /\ disk = AtRest
    /\ sessions = AtRest
    /\ session_state = AtRest
    /\ script = AtRest
    /\ retry = AtRest
    /\ cache = AtRest

NextPrompt == BuildPrompt
SpecPrompt == InitPrompt /\ [][NextPrompt]_vars

\* the titles that stand in the <excluded_titles> block
ExcludedTitles(text) ==
    UNION { {text.excluded_titles[l][i].text :
                i \in {j \in 1..Len(text.excluded_titles[l]) :
                          text.excluded_titles[l][j].piece = "title"}} :
            l \in 1..Len(text.excluded_titles) }

WatchedSet == FullWatched(prompt.db, JellyfinTitles(prompt.jellyfin_watched))
WatchlistSet ==
    TitlesOf(ListOf([doc |-> prompt.db], "watchlist.movies"))
        \cup TitlesOf(ListOf([doc |-> prompt.db], "watchlist.series"))
BlacklistSet == TitlesOf(ListOf([doc |-> prompt.db], "do_not_recommend"))
AvailableSet == TitlesOf(Get(prompt.db[username], "available_but_unwatched", <<>>))

\* C20: the titles in the excluded block of a built prompt are exactly the
\* titles of the watched, watchlist, blacklist and available-but-unwatched
\* sets, whether the sets overlap or not.
C20_ExcludedIsUnion ==
    prompt.built =>
        ExcludedTitles(prompt.text)
            = WatchedSet \cup WatchlistSet \cup BlacklistSet \cup AvailableSet

C20_Witness ==
    /\ prompt.built
    /\ ExcludedTitles(prompt.text) = Titles
    /\ WatchedSet = {"Dune"}
    /\ BlacklistSet = {"Dune"}
    /\ WatchlistSet = {}
    /\ AvailableSet = {"Dune", "Arrival"}

-----------------------------------------------------------------------------
\* The title collections of the fetch block

NoTitleTwice(list) == \A i, j \in 1..Len(list) : list[i] = list[j] => i = j

BuiltLists == ExclusionLists(prompt.db, JellyfinTitles(prompt.jellyfin_watched))

\* C21: none of the four title collections the fetch block builds (watched,
\* watchlist, blacklist, available but unwatched) holds a title twice.
C21_CollectionsHaveNoDuplicates ==
    prompt.built =>
        /\ NoTitleTwice(BuiltLists.full_watched_list)
        /\ NoTitleTwice(BuiltLists.watchlist)
        /\ NoTitleTwice(BuiltLists.blacklist)
        /\ NoTitleTwice(BuiltLists.available_but_unwatched)

-----------------------------------------------------------------------------
\* The AI requester and what the fetch block makes of its result

\* what model.generate_content comes back with
EmptyResponse == [kind |-> "no text", list |-> <<>>]
MalformedResponse == [kind |-> "not JSON", list |-> <<>>]
GeminiResponses ==
    {EmptyResponse, MalformedResponse, [kind |-> "raises", list |-> <<>>]}
        \cup {[kind |-> "JSON", list |-> a] : a \in AIAnswers}

\* the value a Python name holds: None or a list
PyNone == [is_none |-> TRUE, list |-> <<>>]
PyList(l) == [is_none |-> FALSE, list |-> l]

\* get_gemini_recommendations: the value returned and the st.error shown
get_gemini_recommendations(response) ==
    CASE response.kind = "no text"  -> [result |-> PyNone, error_shown |-> None]
      [] response.kind = "not JSON" -> [result |-> PyNone, error_shown |-> "not valid JSON"]
      [] response.kind = "raises"   -> [result |-> PyNone, error_shown |-> "AI error"]
      [] OTHER                      -> [result |-> PyList(response.list), error_shown |-> None]

\* "if recommendations:" of the fetch block: None and [] take the else branch
BranchOn(result) ==
    [kind |-> "answer", ai |-> IF result.is_none THEN <<>> ELSE result.list,
     error |-> None, late |-> FALSE]

\* the session state and recommendations a running fetch ends with on this response
EndsWith(response) ==
    FetchBlock(session_state, recommendations,
               BranchOn(get_gemini_recommendations(response).result), script.now)

\* C22: a response that is not JSON gives the fetch block a result other than
\* the one an empty response gives, and the fetch ends in another recorded
\* outcome.
C22_MalformedDiffersFromEmpty ==
    script.fetching =>
        /\ get_gemini_recommendations(MalformedResponse).result
              # get_gemini_recommendations(EmptyResponse).result
        /\ EndsWith(MalformedResponse) # EndsWith(EmptyResponse)

-----------------------------------------------------------------------------
(* retry_with_backoff and the functions it wraps *)

MaxAttempts == 3      \* largest max_attempts tried on a function that lets its exceptions out

\* what one outbound HTTP call does
NetworkOutcomes == {"ok", "Timeout", "ConnectionError", "HTTPError", "ValueError"}

\* except (requests.exceptions.RequestException, ConnectionError, TimeoutError)
Transient(e) == e \in {"Timeout", "ConnectionError", "HTTPError"}

\* the functions that call out, and one that lets its exceptions out
Collaborators ==
    {"get_jellyfin_watched_titles", "jellyfin_login", "request_on_jellyseerr",
     "get_gemini_recommendations"}
Propagating == "func"

\* @retry_with_backoff(max_attempts=...) above the function, if any
Decorated(fn) == fn # "get_gemini_recommendations"
max_attempts_of(fn) == IF fn = "request_on_jellyseerr" THEN 2 ELSE 3

\* one invocation of the function body: what it returns or raises to its caller
Body(fn, outcome) ==
    IF fn = Propagating
    THEN IF outcome = "ok" THEN [raised |-> None, value |-> "result"]
         ELSE [raised |-> outcome, value |-> None]
    ELSE \* every except clause of the body ends in a return
         [raised |-> None,
          value |-> IF outcome = "ok" THEN "result"
                    ELSE IF fn = "get_jellyfin_watched_titles" THEN "[]"
                    ELSE IF fn = "get_gemini_recommendations" THEN "None"
                    ELSE "False"]

NewCall(fn, n) ==
    [fn |-> fn, max_attempts |-> n, attempt |-> 0, delay |-> 1, last_exception |-> None,
     invocations |-> 0, last_outcome |-> None, outcomes |-> <<>>,
     status |-> "running",
     value |-> None, exception |-> None]

\* the wrapper retrying on every exception
wrapper_turn_retrying_all(r, outcome) ==
    LET body == Body(r.fn, outcome)
        called == [r EXCEPT !.invocations = @ + 1, !.last_outcome = outcome,
                             !.outcomes = Append(@, outcome)]
    IN  IF body.raised = None
        THEN [called EXCEPT !.status = "returned", !.value = body.value]
        ELSE IF r.attempt + 1 < r.max_attempts
        THEN [called EXCEPT !.last_exception = body.raised, !.attempt = @ + 1,
                            !.delay = @ * 2]
        ELSE [called EXCEPT !.last_exception = body.raised, !.attempt = @ + 1,
                            !.status = "raised", !.exception = body.raised]

\* one turn of the wrapper's while loop, and what follows the loop when it was the last
wrapper_turn(r, outcome) ==
    LET body == Body(r.fn, outcome)
        called == [r EXCEPT !.invocations = @ + 1, !.last_outcome = outcome,
                             !.outcomes = Append(@, outcome)]
    IN  IF body.raised = None
        THEN [called EXCEPT !.status = "returned", !.value = body.value]
        ELSE IF ~Transient(body.raised)
        THEN [called EXCEPT !.status = "raised", !.exception = body.raised]
        ELSE IF r.attempt + 1 < r.max_attempts
        THEN [called EXCEPT !.last_exception = body.raised, !.attempt = @ + 1,
                            !.delay = @ * 2]       \* time.sleep(delay); delay *= backoff_factor
        ELSE [called EXCEPT !.last_exception = body.raised, !.attempt = @ + 1,
                            !.status = "raised", !.exception = body.raised]

\* a call of a function that has no decorator
direct_call(r, outcome) ==
    LET body == Body(r.fn, outcome)
    IN  [r EXCEPT !.invocations = @ + 1, !.last_outcome = outcome,
                             !.outcomes = Append(@, outcome),
                  !.status = IF body.raised = None THEN "returned" ELSE "raised",
                  !.value = body.value, !.exception = body.raised]

Attempt(outcome) ==
    /\ retry.status = "running"
    /\ retry' = IF Decorated(retry.fn) THEN wrapper_turn(retry, outcome)
                ELSE direct_call(retry, outcome)
    /\ UNCHANGED <<app, disk, sessions, session_state, script, prompt, cache>>

InitRetry ==
    /\ retry \in {NewCall(fn, max_attempts_of(fn)) : fn \in Collaborators}
                    \cup {NewCall(Propagating, n) : n \in 1..MaxAttempts}
    /\ file = save_manual_db(EmptyDoc)
    /\ media_type = "Elokuva"
    /\ recommendations = <<>>
    /\ toast = NoToast
    /\ fetch = NoFetch
    /\ disk = AtRest
    /\ sessions = AtRest
    /\ session_state = AtRest
    /\ script = AtRest
    /\ prompt = AtRest
    /\ cache = AtRest

NextRetry == \E outcome \in NetworkOutcomes : Attempt(outcome)
SpecRetry == InitRetry /\ [][NextRetry]_vars

\* C23: a timeout or a connection error on the first attempt of an outbound
\* call of a collaborator is followed by another attempt of that call.
C23_TransientFailureIsRetried ==
    [][ /\ retry.fn \in Collaborators
        /\ retry.invocations = 0 /\ retry'.invocations = 1
        /\ retry'.last_outcome \in {"Timeout", "ConnectionError"}
        => retry'.status = "running" ]_vars

\* C30: a call through the wrapper invokes the function at most max_attempts
\* times and ends: it returns at the first invocation that succeeds, raises a
\* non-transient exception at its first occurrence, and after max_attempts
\* transient failures raises the last of them.
C30_BoundedRetry ==
    /\ retry.invocations <= retry.max_attempts
    /\ retry.invocations = Len(retry.outcomes)
    /\ \A i \in 1..Len(retry.outcomes) - 1 : Transient(retry.outcomes[i])
    /\ retry.status = "running" => retry.invocations = retry.attempt
                                     /\ retry.attempt < retry.max_attempts
    /\ retry.status = "returned" =>
          /\ retry.last_outcome = "ok" \/ retry.fn # Propagating
          /\ retry.invocations = retry.attempt + 1
    /\ retry.status = "raised" =>
          /\ retry.exception = retry.last_outcome
          /\ \/ ~Transient(retry.exception) /\ retry.invocations = retry.attempt + 1
             \/ /\ Transient(retry.exception)
                /\ retry.invocations = retry.max_attempts
                /\ retry.attempt = retry.max_attempts
                /\ retry.exception = retry.last_exception

C30_Witness ==
    /\ retry.fn = Propagating
    /\ retry.status = "raised"
    /\ retry.max_attempts = 3 /\ retry.invocations = 3
    /\ retry.exception = "Timeout"
    /\ retry.delay = 4

-----------------------------------------------------------------------------
\* C24: on the recommendations page after a fetch whose AI answer was empty,
\* the next render shows the 'no recommendations returned' warning and leaves
\* gemini_prev_results_displayed true.
C24_EmptyFetchShowsWarning ==
    (Between /\ OnRecommendationsPage /\ EmptyFromAPI) =>
        /\ Notice(session_state, recommendations) = "warning"
        /\ RenderRecommendationsPage(session_state, recommendations)
               .gemini_prev_results_displayed

-----------------------------------------------------------------------------
(* get_jellyfin_watched_titles behind st.cache_data *)

Ttl == 2              \* hours an entry of the cache is served (ttl=2*60*60 seconds)
MaxHours == 3         \* the clock runs this many hours

Watchers == {username, OtherUser}
Played(t) == [title |-> t, media_type |-> IF t = "Dune" THEN "movie" ELSE "tv"]

\* the body of get_jellyfin_watched_titles run in the session of user:
\* items is what GET /Users/{user_id}/Items holds for that user
get_jellyfin_watched_titles(f, user, outcome, items) ==
    IF outcome # "ok" THEN [file |-> f, value |-> <<>>]
    ELSE LET db == SetDefault(load_manual_db(f), user, DefaultUser)
             user_data == Put(Put(db[user], "jellyfin_synced_at", "ts"),
                              "jellyfin_total_watched", ToString(Len(items)))
         IN  [file |-> save_manual_db(Put(db, user, user_data)), value |-> items]

NoEntry == [present |-> FALSE, value |-> <<>>, stored_at |-> 0, filled_by |-> None]
NoUse == [user |-> None, value |-> <<>>, ran |-> FALSE, obtained_for |-> None]

\* st.cache_data keyed by the function and its (no) arguments: one entry for all sessions
Hit(c) == c.entry.present /\ c.now - c.entry.stored_at < Ttl

\* one call of the cached function from the fetch block of user's session
cached_call(c, f, user, outcome) ==
    LET body == get_jellyfin_watched_titles(f, user, outcome, c.remote[user])
    IN  IF Hit(c)
        THEN [cache |-> [c EXCEPT !.last = [user |-> user, value |-> c.entry.value,
                                            ran |-> FALSE, obtained_for |-> c.entry.filled_by]],
              file |-> f]
        ELSE [cache |-> [c EXCEPT !.last = [user |-> user, value |-> body.value,
                                            ran |-> TRUE, obtained_for |-> user],
                                  !.entry = [present |-> TRUE, value |-> body.value,
                                             stored_at |-> c.now, filled_by |-> user]],
              file |-> body.file]

FetchHistory(user, outcome) ==
    /\ LET out == cached_call(cache, file, user, outcome)
       IN  /\ cache' = out.cache
           /\ file' = out.file
    /\ UNCHANGED <<media_type, recommendations, toast, fetch, disk, sessions,
                   session_state, script, prompt, retry>>

\* a user plays a title on the media server
Play(user, t) ==
    /\ \A i \in 1..Len(cache.remote[user]) : cache.remote[user][i].title # t
    /\ cache' = [cache EXCEPT !.remote[user] = Append(@, Played(t))]
    /\ UNCHANGED <<app, disk, sessions, session_state, script, prompt, retry>>

HourPasses ==
    /\ cache.now < MaxHours
    /\ cache' = [cache EXCEPT !.now = @ + 1]
    /\ UNCHANGED <<app, disk, sessions, session_state, script, prompt, retry>>

\* the server process is started again: the cache is in memory only
Restart ==
    /\ cache.entry.present
    /\ cache' = [cache EXCEPT !.entry = NoEntry]
    /\ UNCHANGED <<app, disk, sessions, session_state, script, prompt, retry>>

InitHistory ==
    /\ cache = [entry |-> NoEntry, now |-> 0, last |-> NoUse,
                remote |-> (username :> <<Played("Dune")>>) @@ (OtherUser :> <<>>)]
    /\ file = save_manual_db(EmptyDoc)
    /\ media_type = "Elokuva"
    /\ recommendations = <<>>
    /\ toast = NoToast
    /\ fetch = NoFetch
    /\ disk = AtRest
    /\ sessions = AtRest
    /\ session_state = AtRest
    /\ script = AtRest
    /\ prompt = AtRest
    /\ retry = AtRest

NextHistory ==
    \/ \E user \in Watchers, outcome \in NetworkOutcomes : FetchHistory(user, outcome)
    \/ \E user \in Watchers, t \in Titles : Play(user, t)
    \/ HourPasses
    \/ Restart
SpecHistory == InitHistory /\ [][NextHistory]_vars

\* C25: the watch-history list a fetch of user U uses was returned by the
\* remote API for U's own session during that fetch: it was not obtained for
\* another user and not by an earlier fetch.
C25_HistoryIsOwnAndFresh ==
    cache.last.user # None =>
        /\ cache.last.obtained_for = cache.last.user
        /\ cache.last.ran

-----------------------------------------------------------------------------
\* the move of one title, seen from the record before it
MarkWatchedMoves(t, k) ==
    LET L == IF k = "movies" THEN "watchlist.movies" ELSE "watchlist.series"
        before == ListOf(file, L)
        out == handle_watchlist_mark_watched(file, recommendations, t, k)
        moved == before[find_media_in_list(t, before)]
    IN  IF file.ok /\ t \in TitlesOf(before)
        THEN /\ t \notin TitlesOf(ListOf(out.file, L))
             /\ t \in TitlesOf(ListOf(out.file, k))
             /\ is_media_entry_dict(moved) =>
                    \E i \in 1..Len(ListOf(out.file, k)) :
                        LET e == ListOf(out.file, k)[i]
                        IN  /\ is_media_entry_dict(e) /\ get_media_title(e) = t
                            /\ e.media_type = moved.media_type
                            /\ e.tmdb_id = moved.tmdb_id
        ELSE out.file = file

\* C26: marking a title of watchlist[k] as watched leaves it absent from
\* watchlist[k] and present in the watched list k, a structured entry keeping
\* its media_type and tmdb_id; for a title that is not in watchlist[k] the
\* persisted record stays as it was.
C26_MoveToWatched == \A t \in Titles, k \in Keys : MarkWatchedMoves(t, k)

C26_Witness ==
    /\ toast = Toast("marked watched and removed from watchlist", "Dune")
    /\ "Dune" \notin TitlesOf(ListOf(file, "watchlist.movies"))
    /\ \E i \in 1..Len(ListOf(file, "movies")) :
          /\ is_media_entry_dict(ListOf(file, "movies")[i])
          /\ ListOf(file, "movies")[i].title = "Dune"
          /\ ListOf(file, "movies")[i].tmdb_id # None

-----------------------------------------------------------------------------
AvailableList(db) ==
    Get(Get(db, username, DefaultUser), "available_but_unwatched", <<>>)

\* the availability loop over the first n enriched recommendations
LoopUpTo(n, enriched, statusOf) ==
    AvailabilityLoop(SubSeq(enriched, 1, n), 1, statusOf, fetch.full_watched_list, fetch.db)

\* the rule for the i-th enriched recommendation
Reconciled(i, enriched, statusOf) ==
    LET rec == enriched[i]
        before == AvailableList(LoopUpTo(i - 1, enriched, statusOf))
        after == AvailableList(LoopUpTo(i, enriched, statusOf))
        due == /\ rec.media_id # None
               /\ statusOf[i] \in {"AVAILABLE", "PARTIALLY_AVAILABLE"}
               /\ rec.title \notin fetch.full_watched_list
               /\ \A j \in 1..Len(before) : get_media_title(before[j]) # rec.title
               /\ \A j \in 1..Len(before) : is_media_entry_dict(before[j])
    IN  IF due
        THEN /\ Len(after) = Len(before) + 1
             /\ SubSeq(after, 1, Len(before)) = before
             /\ after[Len(after)].title = rec.title
             /\ after[Len(after)].tmdb_id = rec.media_id
             /\ after[Len(after)].noted_at # None
        ELSE after = before

\* C27: for each enriched recommendation with an id the reconciler appends an
\* available_but_unwatched entry with noted_at exactly when the status is
\* AVAILABLE or PARTIALLY_AVAILABLE, the title is not in the merged watched
\* set and the list has no entry with that title; otherwise the list stays as
\* it was.
C27_ReconcilerRule ==
    (fetch.pc = "enriching"
        /\ \A i \in 1..Len(fetch.futures) : fetch.futures[i].state = "yielded") =>
    LET enriched == Deref(fetch.recommendations, fetch.enriched_recommendations)
    IN  \A statusOf \in [1..Len(enriched) -> Statuses] :
            \A i \in 1..Len(enriched) : Reconciled(i, enriched, statusOf)

C27_Witness ==
    /\ fetch = NoFetch
    /\ \E i \in 1..Len(recommendations) :
          recommendations[i].title = "Arrival" /\ recommendations[i].media_id # None
    /\ \E j \in 1..Len(AvailableList(file.doc)) :
          /\ AvailableList(file.doc)[j].title = "Arrival"
          /\ AvailableList(file.doc)[j].noted_at # None

-----------------------------------------------------------------------------
\* the sync metadata of the user's persisted record
JellyfinMetadata(f) ==
    LET user_data == Get(load_manual_db(f), username, DefaultUser)
    IN  [jellyfin_synced_at |-> Get(user_data, "jellyfin_synced_at", None),
         jellyfin_total_watched |-> Get(user_data, "jellyfin_total_watched", None)]

MetadataOf(watched_with_type) ==
    [jellyfin_synced_at |-> "ts",
     jellyfin_total_watched |-> ToString(Len(watched_with_type))]

\* C29: when the remote watch-history fetch succeeds, the persisted record
\* carries jellyfin_synced_at and jellyfin_total_watched = the number of
\* fetched titles when the function returns, and the later phases of the
\* fetch (availability sync, enrichment, availability loop, final save) leave
\* both as they are.
C29_SyncMetadataPersists ==
    /\ [](\A jf \in JellyfinAnswers, av \in AvailableAnswers :
            jf.ok =>
              /\ JellyfinMetadata(SaveJellyfinMetadata(file, jf.items)) = MetadataOf(jf.items)
              /\ JellyfinMetadata(AfterSyncs(file, jf, av)) = MetadataOf(jf.items))
    /\ [][fetch.pc = "enriching" => JellyfinMetadata(file') = JellyfinMetadata(file)]_vars

C29_Witness ==
    /\ fetch = NoFetch
    /\ recommendations # <<>>
    /\ AvailableList(file.doc) # <<>>
    /\ JellyfinMetadata(file) = MetadataOf(<<Played("Dune")>>)

-----------------------------------------------------------------------------
\* the ways the remote watch-history fetch fails
HistoryFailures == (NetworkOutcomes \ {"ok"}) \cup {"no session"}

SetOf(list) == {list[i] : i \in 1..Len(list)}

\* C28: when the remote watch-history fetch fails (timeout, HTTP error,
\* connection error, missing session) the function returns the empty list
\* without raising, the four exclusion lists are built from the local record
\* alone, and the prompt for the AI call is built from them.
C28_FailedHistoryFallsBackToLocal ==
    /\ \A outcome \in HistoryFailures :
          /\ Body("get_jellyfin_watched_titles", outcome).raised = None
          /\ get_jellyfin_watched_titles(file, username, outcome, <<Played("Dune")>>)
                 = [file |-> file, value |-> <<>>]
    /\ (prompt.built /\ ~prompt.jellyfin_watched.ok) =>
          /\ JellyfinTitles(prompt.jellyfin_watched) = {}
          /\ SetOf(BuiltLists.full_watched_list)
                 = TitlesOf(ListOf([doc |-> prompt.db], "movies"))
                     \cup TitlesOf(ListOf([doc |-> prompt.db], "series"))
          /\ SetOf(BuiltLists.watchlist) = WatchlistSet
          /\ SetOf(BuiltLists.blacklist) = BlacklistSet
          /\ SetOf(BuiltLists.available_but_unwatched) = AvailableSet
          /\ prompt.text = build_prompt(prompt.media_type, BuiltLists.full_watched_list,
                                        BuiltLists.watchlist, BuiltLists.blacklist,
                                        BuiltLists.available_but_unwatched)
          /\ prompt.text # NoPrompt

C28_Witness ==
    /\ prompt.built
    /\ ~prompt.jellyfin_watched.ok
    /\ BuiltLists.full_watched_list = <<"Dune">>
    /\ BlacklistSet = {"Arrival"}
    /\ WatchlistSet = {"Arrival"}
    /\ AvailableSet = {"Dune"}

=============================================================================
